---- MODULE Spec2Model ----
(***************************************************************************)
(* The autoconfig merge engine (AutoConfigClient) on top of the            *)
(* reconnecting event source (EventSource), as state machines.             *)
(*                                                                         *)
(* One poll of the engine is a loop; every iteration of that loop and      *)
(* every iteration of the event source's own loop is one action here.      *)
(* A single task drives both loops, so nothing interleaves with them.      *)
(***************************************************************************)
EXTENDS Integers, Sequences, FiniteSets, TLC

\* ---------------------------------------------------------------- bounds
NumEnvs == 2
MaxVersion == 2
MaxMsgs == 3
MaxRequests == 3
MaxOutputs == 6
MaxDelay == 2
NumIds == 2
MaxFrames == 3
MaxChunks == 3
MaxPolls == 4

EnvIds == 1..NumEnvs
Versions == 1..MaxVersion
Delays == 1..MaxDelay
\* Option<String> of an event id: NoId is None
NoId == 0
EventIds == 0..NumIds

VARIABLES
    legacy,          \* TRUE: src/src/eventsource, FALSE: src/ldactl/src/eventsource
    environments,    \* AutoConfigClient.environments
    changes,         \* AutoConfigClient.changes (the pending change queue)
    is_initialized,  \* AutoConfigClient.is_initialized
    event_source,    \* AutoConfigClient.event_source (the owned EventSource)
    requests,        \* every request sent so far, with its last-event-id header
    log,             \* every event the engine took from the event source, with its effect
    outputs,         \* every item the engine's poll_next returned Ready
    queries,         \* number of calls of backoff.next_backoff()
    fatal,           \* snapshot taken when the first fatal error was yielded
    observed,        \* what the event source in use last read, drew and failed with
    codec,           \* the SSE encoder and decoder with the bytes between them
    tasks            \* main's loop, file_write_debouncer and their two channels

vars == <<legacy, environments, changes, is_initialized, event_source,
          requests, log, outputs, queries, fatal, observed, codec, tasks>>

\* ------------------------------------------------------- environment map
\* a missing key of the HashMap
NoEnv == [env_id |-> 0, version |-> 0]

\* EnvironmentConfig: the fields the engine reads
EnvironmentConfig(k) == {[env_id |-> k, version |-> v] : v \in Versions}

EmptyMap == [k \in EnvIds |-> NoEnv]

Keys(m) == {k \in EnvIds : m[k] # NoEnv}

\* PutData.environments
PutData == {m \in [EnvIds -> {NoEnv} \cup UNION {EnvironmentConfig(k) : k \in EnvIds}] :
               \A k \in EnvIds : m[k] # NoEnv => m[k] \in EnvironmentConfig(k)}

\* the orders in which a HashMap may iterate over the keys S
Orders(S) == {o \in [1..Cardinality(S) -> S] :
                 \A i, j \in 1..Cardinality(S) : i # j => o[i] # o[j]}

\* ------------------------------------------------------------ messages
\* Message (messages.rs): Put(PutEvent), Patch(PatchEvent), Delete(DeleteEvent), Reconnect
PutEvent == {[kind |-> "put", path |-> p, environments |-> m] :
                p \in {"/"}, m \in PutData}
            \cup {[kind |-> "put", path |-> "/environments", environments |-> EmptyMap]}
PatchEvent == UNION {{[kind |-> "patch", env_id |-> k, environment |-> r] :
                         r \in EnvironmentConfig(k)} : k \in EnvIds}
\* a delete that removes a record of version MaxVersion carries a larger one
DeleteEvent == {[kind |-> "delete", env_id |-> k, version |-> v] :
                  k \in EnvIds, v \in 1..(MaxVersion + 1)}
Reconnect == [kind |-> "reconnect"]
Message == PutEvent \cup PatchEvent \cup DeleteEvent \cup {Reconnect}

\* ConfigChangeEvent
Initialized == [kind |-> "Initialized"]
Insert(env) == [kind |-> "Insert", env |-> env]
Update(previous, current) == [kind |-> "Update", previous |-> previous, current |-> current]
Delete(env) == [kind |-> "Delete", env |-> env]

\* ------------------------------------------------------- merge engine
\* update_environment that also replaces a record of the same version
update_environment_or_equal(source, env_id, value) ==
    IF source[env_id] # NoEnv
    THEN IF source[env_id].version <= value.version
         THEN [environments |-> [source EXCEPT ![env_id] = value],
               changes |-> <<Update(source[env_id], value)>>]
         ELSE [environments |-> source, changes |-> <<>>]
    ELSE [environments |-> [source EXCEPT ![env_id] = value],
          changes |-> <<Insert(value)>>]

\* update_environment with the version test reversed
update_environment_reversed(source, env_id, value) ==
    IF source[env_id] # NoEnv
    THEN IF source[env_id].version > value.version
         THEN [environments |-> [source EXCEPT ![env_id] = value],
               changes |-> <<Update(source[env_id], value)>>]
         ELSE [environments |-> source, changes |-> <<>>]
    ELSE [environments |-> [source EXCEPT ![env_id] = value],
          changes |-> <<Insert(value)>>]

\* update_environment: the entry of env_id in source, and the change if any
update_environment(source, env_id, value) ==
    IF source[env_id] # NoEnv
    THEN IF source[env_id].version < value.version
         THEN [environments |-> [source EXCEPT ![env_id] = value],
               changes |-> <<Update(source[env_id], value)>>]
         ELSE [environments |-> source, changes |-> <<>>]
    ELSE [environments |-> [source EXCEPT ![env_id] = value],
          changes |-> <<Insert(value)>>]

\* a Put("/") that replaces the map instead of merging into it
merge_environments_replace(source, payload, order) ==
    [environments |-> payload,
     changes |-> [i \in 1..Len(order) |-> Insert(payload[order[i]])]]

\* the merge arm of Put("/"): update_environment for every (key, value) of
\* the payload, in the iteration order of the payload's HashMap
RECURSIVE merge_environments(_, _, _)
merge_environments(source, payload, order) ==
    IF order = <<>>
    THEN [environments |-> source, changes |-> <<>>]
    ELSE LET first == update_environment(source, Head(order), payload[Head(order)])
             rest == merge_environments(first.environments, payload, Tail(order))
         IN [environments |-> rest.environments,
             changes |-> first.changes \o rest.changes]

\* the arm of Put("/") on an empty map; values() iterates in HashMap order
RECURSIVE insert_changes(_, _)
insert_changes(payload, order) ==
    IF order = <<>> THEN <<>>
    ELSE <<Insert(payload[Head(order)])>> \o insert_changes(payload, Tail(order))

put_initialize(initialized, payload, order) ==
    [environments |-> payload,
     changes |-> (IF initialized THEN <<>> ELSE <<Initialized>>)
                 \o insert_changes(payload, order),
     is_initialized |-> IF initialized THEN TRUE ELSE initialized]

\* the Delete arm that also removes a record of the same version
delete_environment_or_equal(source, env_id, version) ==
    IF source[env_id] # NoEnv /\ source[env_id].version <= version
    THEN [environments |-> [source EXCEPT ![env_id] = NoEnv],
          changes |-> <<Delete(source[env_id])>>]
    ELSE [environments |-> source, changes |-> <<>>]

\* the Delete arm
delete_environment(source, env_id, version) ==
    IF source[env_id] # NoEnv /\ source[env_id].version < version
    THEN [environments |-> [source EXCEPT ![env_id] = NoEnv],
          changes |-> <<Delete(source[env_id])>>]
    ELSE [environments |-> source, changes |-> <<>>]

\* process_message: the map, the flag and the changes after msg; reconnect
\* tells that the event source is replaced
process_message(source, initialized, msg, order) ==
    CASE msg.kind = "put" /\ msg.path = "/" ->
            IF Keys(source) = {}
            THEN put_initialize(initialized, msg.environments, order)
                 @@ [reconnect |-> FALSE]
            ELSE merge_environments(source, msg.environments, order)
                 @@ [is_initialized |-> initialized, reconnect |-> FALSE]
      [] msg.kind = "put" /\ msg.path # "/" ->
            [environments |-> source, changes |-> <<>>,
             is_initialized |-> initialized, reconnect |-> FALSE]
      [] msg.kind = "patch" ->
            update_environment(source, msg.env_id, msg.environment)
            @@ [is_initialized |-> initialized, reconnect |-> FALSE]
      [] msg.kind = "delete" ->
            delete_environment(source, msg.env_id, msg.version)
            @@ [is_initialized |-> initialized, reconnect |-> FALSE]
      [] msg.kind = "reconnect" ->
            [environments |-> source, changes |-> <<>>,
             is_initialized |-> initialized, reconnect |-> TRUE]

\* the HashMap iteration orders process_message may see for msg
MessageOrders(msg) ==
    IF msg.kind = "put" THEN Orders(Keys(msg.environments)) ELSE {<<>>}

\* ------------------------------------------------------------- events
\* Event of the SSE codec; data is the JSON payload, Malformed if it does
\* not deserialize
Malformed == [kind |-> "malformed"]
EventOf(id, msg) == [id |-> id, name |-> msg.kind, data |-> msg]

\* Message::try_from(event)
try_from(event) ==
    IF event.name = "reconnect" THEN [ok |-> TRUE, msg |-> Reconnect]
    ELSE IF event.name \in {"put", "patch", "delete"}
         THEN IF event.data.kind = event.name
              THEN [ok |-> TRUE, msg |-> event.data]
              ELSE [ok |-> FALSE, error |-> "JSONError"]
         ELSE [ok |-> FALSE, error |-> "UnknownEventType"]

\* ------------------------------------------------------- event source
\* EventSourceError
RequestCloneError == [type |-> "RequestCloneError"]
RequestError(status, cause) == [type |-> "RequestError", status |-> status, cause |-> cause]
MaxRetriesExceeded(attempts) == [type |-> "MaxRetriesExceeded", attempts |-> attempts]
\* DecodeError(sse_codec::DecodeError): the kinds of the codec's DecodeError
DecodeErrorKinds == {"UnexpectedEof", "Utf8Error", "ExceededSizeLimit"}
DecodeErrorOf(kind) == [type |-> "DecodeError", kind |-> kind]
DecodeError == DecodeErrorOf("Utf8Error")
ExceededSizeLimit == DecodeErrorOf("ExceededSizeLimit")
ReadTimeoutElapsed == [type |-> "ReadTimeoutElapsed"]
NoError == [type |-> "none"]

\* a classifier that retries server errors only
is_retryable_reqwest_server(old, e) ==
    IF e.status # 0
    THEN e.status >= 500 /\ e.status < 600
    ELSE e.cause \in {"connect", "timeout", "decode", "body"}

\* impl Retryable for reqwest::Error; status 0 is an error without a status
is_retryable_reqwest(old, e) ==
    IF e.status # 0
    THEN IF old
         THEN ~(e.status >= 400 /\ e.status < 500) \/ e.status \in {400, 408, 429}
         ELSE (e.status >= 500 /\ e.status < 600) \/ e.status \in {400, 408, 429}
    ELSE e.cause \in {"connect", "timeout", "decode", "body"}

\* impl Retryable for EventSourceError
is_retryable(old, e) ==
    CASE e.type = "RequestCloneError" -> FALSE
      [] e.type = "RequestError" -> is_retryable_reqwest(old, e)
      [] e.type = "MaxRetriesExceeded" -> FALSE
      [] e.type = "DecodeError" -> TRUE
      [] e.type = "ReadTimeoutElapsed" -> TRUE
      [] e.type = "Io" -> TRUE

\* MinimumBackoffDuration<ExponentialBackoff>: expired tells that the
\* policy's clock has passed max_elapsed_time since the last reset
MinimumBackoffDuration_new == [expired |-> FALSE, minimum_duration |-> 0]

set_minimum_duration(backoff, d) == [backoff EXCEPT !.minimum_duration = d]

\* a reset that also clears the floor
reset_floor(backoff) == [backoff EXCEPT !.expired = FALSE, !.minimum_duration = 0]

reset(backoff) == [backoff EXCEPT !.expired = FALSE]

Max(a, b) == IF a >= b THEN a ELSE b

\* the wrapped policy's next_backoff (ExponentialBackoff): elapsed tells
\* whether max_elapsed_time has passed by now, d is the delay it draws;
\* duration 0 is None
inner_next_backoff(backoff, elapsed, d) ==
    IF backoff.expired \/ elapsed
    THEN [backoff |-> [backoff EXCEPT !.expired = TRUE], duration |-> 0]
    ELSE [backoff |-> backoff, duration |-> d]

\* a next_backoff that hands on the inner delay as it is
next_backoff_unfloored(backoff, elapsed, d) ==
    LET r == inner_next_backoff(backoff, elapsed, d)
    IN [backoff |-> r.backoff, inner |-> r.duration, duration |-> r.duration]

\* MinimumBackoffDuration::next_backoff: the inner answer mapped through
\* max(_, minimum_duration); inner is what the wrapped policy answered
next_backoff(backoff, elapsed, d) ==
    LET r == inner_next_backoff(backoff, elapsed, d)
    IN [backoff |-> r.backoff,
        inner |-> r.duration,
        duration |-> IF r.duration = 0 THEN 0
                     ELSE Max(r.duration, backoff.minimum_duration)]

\* the URL of the request template, and the URL U' a 301 answer names
OriginalUrl == 0
MovedUrl == 1

\* EventSource::try_with_backoff
try_with_backoff(last_event_id) ==
    [state |-> "New",
     cloneable |-> TRUE,
     backoff |-> MinimumBackoffDuration_new,
     past_retries |-> 0,
     last_event_id |-> last_event_id,
     retry_url |-> OriginalUrl,
     conn |-> 0,
     error |-> NoError,
     sleep |-> 0]

\* AutoConfigClient::create_event_source
create_event_source == try_with_backoff(NoId)

\* a reconnect that keeps the event source it has
reconnect_keep(source) == source

\* AutoConfigClient::reconnect: the event source after it
reconnect(source) == create_event_source

\* --------------------------------------------------------------- inputs
\* the outcome of the connect future
Statuses == {200, 400, 404, 408, 429, 503}
ConnectCauses == {"connect", "redirect"}
\* moved: the answer came after a 301, which the client followed to MovedUrl
Responses == {[ok |-> TRUE, status |-> s, moved |-> FALSE] : s \in Statuses}
             \cup {[ok |-> FALSE, error |-> RequestError(0, c), moved |-> FALSE] :
                      c \in ConnectCauses}
OkResponses == {[ok |-> TRUE, status |-> 200, moved |-> FALSE]}
MovedResponses == {[ok |-> TRUE, status |-> s, moved |-> TRUE] : s \in {200, 503}}

\* the items of the decoded frame stream of one connection
EventFrames(ids, msgs) == {[kind |-> "event", event |-> EventOf(i, m)] : i \in ids, m \in msgs}
BadEventFrames == {[kind |-> "event", event |-> [id |-> NoId, name |-> "put", data |-> Malformed]],
                   [kind |-> "event", event |-> [id |-> NoId, name |-> "ping", data |-> Malformed]]}
\* src/ldactl recovers the transport error that the byte stream wrapped in
\* an io::Error; src/src sees it as a DecodeError
StreamErrors(old) == {DecodeError, ReadTimeoutElapsed}
                     \cup (IF old THEN {} ELSE {RequestError(0, "body"), ExceededSizeLimit})
ControlFrames == {[kind |-> "comment"], [kind |-> "end"]}
                 \cup {[kind |-> "retry", duration |-> d] : d \in Delays}
                 \cup {[kind |-> "error", error |-> e] : e \in StreamErrors(FALSE)}

MergeFrames == EventFrames({NoId}, Message) \cup BadEventFrames
TransportMessages == {Reconnect, [kind |-> "patch", env_id |-> 1, environment |-> [env_id |-> 1, version |-> 1]]}
TransportFrames == EventFrames(EventIds, TransportMessages) \cup ControlFrames
\* a Put("/") whose payload stores a record under a key that is not the
\* env_id of the record: the JSON map is deserialized as it comes
AnyPutData == [EnvIds -> {NoEnv} \cup UNION {EnvironmentConfig(k) : k \in EnvIds}]
KeyFrames == MergeFrames
             \cup EventFrames({NoId}, {[kind |-> "put", path |-> "/", environments |-> m] :
                                          m \in AnyPutData \ PutData})
\* one message without id, and every control frame
RetryFrames == EventFrames({NoId}, TransportMessages \ {Reconnect}) \cup ControlFrames

\* -------------------------------------------------------------- state
NoFatal == [at |-> 0, requests |-> 0, queries |-> 0]

\* nothing observed yet: retry is the duration of the last Retry frame the
\* event source in use has read, cause the error it is handling or has
\* closed with, inner the delay the wrapped policy answered for the wait
\* that is on, success whether the response it is streaming had a success
\* status
NoObserved == [retry |-> 0, cause |-> NoError, inner |-> 0, success |-> FALSE]

\* the codec is not part of the engine's specifications
NoCodec == [kind |-> "none"]

\* nor is the program around the engine
NoTasks == [main |-> "none"]

InitWith(olds) ==
    /\ legacy \in olds
    /\ environments = EmptyMap
    /\ changes = <<>>
    /\ is_initialized = FALSE
    /\ event_source = create_event_source
    /\ requests = <<>>
    /\ log = <<>>
    /\ outputs = <<>>
    /\ queries = 0
    /\ fatal = NoFatal
    /\ observed = NoObserved
    /\ codec = NoCodec
    /\ tasks = NoTasks

\* AutoConfigClient::new: the engine owns the event source of src/src
Init == InitWith({TRUE})

\* both event sources of the repository
InitTransport == InitWith(BOOLEAN)

\* the consumer polls until it has taken MaxOutputs items
Polling == Len(outputs) < MaxOutputs

\* the event source is polled only when the change queue is empty
source_polled(queue) == queue = <<>>

\* Ready(Some(Err(e))) of the event source, returned by the engine as it is
yield_error(e, nrequests, nqueries) ==
    /\ outputs' = Append(outputs, [kind |-> "error", error |-> e])
    /\ fatal' = IF fatal.at = 0
                THEN [at |-> Len(outputs) + 1, requests |-> nrequests, queries |-> nqueries]
                ELSE fatal

\* Ready(None)
yield_end == outputs' = Append(outputs, [kind |-> "end"])

\* ------------------------------------------------------------- actions
\* a poll that takes the newest change of the queue
pop_back(queue) == [item |-> queue[Len(queue)], rest |-> SubSeq(queue, 1, Len(queue) - 1)]

\* AutoConfigClient::poll_next, queue not empty: pop_front and return it
pop_front(queue) == [item |-> Head(queue), rest |-> Tail(queue)]

poll_change ==
    /\ Polling
    /\ changes # <<>>
    /\ LET popped == pop_front(changes)
       IN /\ outputs' = Append(outputs, [kind |-> "change", change |-> popped.item])
          /\ changes' = popped.rest
    /\ UNCHANGED <<codec, tasks, legacy, environments, is_initialized, event_source,
                   requests, log, queries, fatal, observed>>

\* EventSource::poll_next in state New
poll_New ==
    /\ Polling
    /\ source_polled(changes)
    /\ event_source.state = "New"
    /\ Len(requests) < MaxRequests
    /\ IF event_source.cloneable
       THEN /\ requests' = Append(requests, [last_event_id |-> event_source.last_event_id,
                                              events |-> Len(log),
                                              url |-> OriginalUrl,
                                              moved |-> FALSE])
            /\ event_source' = [event_source EXCEPT !.state = "Connect",
                                                    !.conn = Len(requests) + 1]
            /\ UNCHANGED <<outputs, fatal>>
       ELSE /\ event_source' = [event_source EXCEPT !.state = "Closed"]
            /\ yield_error(RequestCloneError, Len(requests), queries)
            /\ UNCHANGED requests
    /\ UNCHANGED <<codec, tasks, legacy, environments, changes, is_initialized, log, queries,
                   observed>>

\* the redirect policy of EventSourceBuilder::build, run by the client while
\* the request is in flight: a 301 stores the new URL in the shared cell
redirect_policy(source, moved) ==
    IF moved THEN [source EXCEPT !.retry_url = MovedUrl] ELSE source

\* EventSource::poll_next in state Connect, the connect future is ready
poll_Connect(responses) ==
    /\ Polling
    /\ source_polled(changes)
    /\ event_source.state = "Connect"
    /\ \E resp \in responses :
          LET source == IF legacy THEN event_source
                        ELSE redirect_policy(event_source, resp.moved)
          IN /\ requests' = [requests EXCEPT ![event_source.conn].moved = resp.moved]
             /\ IF resp.ok /\ (legacy \/ resp.status < 400)
                THEN /\ event_source' = [source EXCEPT !.state = "Connected",
                                                       !.backoff = reset(@)]
                     /\ observed' = [observed EXCEPT !.success = resp.status < 400]
                     /\ UNCHANGED <<outputs, fatal>>
                ELSE LET e == IF resp.ok THEN RequestError(resp.status, "status")
                              ELSE resp.error
                     IN IF ~legacy
                        THEN /\ event_source' = [source EXCEPT !.state = "RequestError",
                                                               !.error = e]
                             /\ UNCHANGED <<outputs, fatal, observed>>
                        ELSE IF is_retryable_reqwest(legacy, e)
                             THEN /\ event_source' = [source EXCEPT !.state = "Retrying"]
                                  /\ observed' = [observed EXCEPT !.cause = e]
                                  /\ UNCHANGED <<outputs, fatal>>
                             ELSE /\ event_source' = [source EXCEPT !.state = "Closed"]
                                  /\ yield_error(e, Len(requests), queries)
                                  /\ observed' = [observed EXCEPT !.cause = e]
    /\ UNCHANGED <<codec, tasks, legacy, environments, changes, is_initialized, log, queries>>

\* EventSource::poll_next in state RequestError (src/ldactl only)
poll_RequestError ==
    /\ Polling
    /\ source_polled(changes)
    /\ event_source.state = "RequestError"
    /\ IF is_retryable_reqwest(legacy, event_source.error)
       THEN /\ event_source' = [event_source EXCEPT !.state = "Retrying", !.error = NoError]
            /\ observed' = [observed EXCEPT !.cause = event_source.error]
            /\ UNCHANGED <<outputs, fatal>>
       ELSE /\ event_source' = [event_source EXCEPT !.state = "Closed", !.error = NoError]
            /\ yield_error(event_source.error, Len(requests), queries)
            /\ observed' = [observed EXCEPT !.cause = event_source.error]
    /\ UNCHANGED <<codec, tasks, legacy, environments, changes, is_initialized, requests, log, queries>>

\* the engine takes Some(Ok(event)) from the event source: Message::try_from,
\* process_message, append to the queue (poll_next, lines 329-345);
\* source is the event source after it yielded the event
take_event(event, source) ==
    LET parsed == try_from(event)
    IN IF parsed.ok
       THEN \E order \in MessageOrders(parsed.msg) :
               LET r == process_message(environments, is_initialized, parsed.msg, order)
               IN /\ environments' = r.environments
                  /\ is_initialized' = r.is_initialized
                  /\ changes' = changes \o r.changes
                  /\ event_source' = IF r.reconnect THEN reconnect(source) ELSE source
                  /\ observed' = IF r.reconnect THEN NoObserved ELSE observed
                  /\ log' = Append(log, [event |-> event, ok |-> TRUE, changes |-> r.changes,
                                         before |-> environments, after |-> r.environments,
                                         requests |-> Len(requests), conn |-> source.conn,
                                         pending |-> Len(changes)])
                  /\ UNCHANGED outputs
       ELSE /\ outputs' = Append(outputs, [kind |-> "error",
                                           error |-> [type |-> "EventParseError",
                                                      source |-> parsed.error]])
            /\ event_source' = source
            /\ log' = Append(log, [event |-> event, ok |-> FALSE, changes |-> <<>>,
                                   before |-> environments, after |-> environments,
                                   requests |-> Len(requests), conn |-> source.conn,
                                   pending |-> Len(changes)])
            /\ UNCHANGED <<environments, is_initialized, changes, observed>>

\* EventSource::poll_next in state Connected, the frame stream is ready
poll_Connected(frames) ==
    /\ Polling
    /\ source_polled(changes)
    /\ event_source.state = "Connected"
    /\ \E frame \in frames :
          CASE frame.kind = "event" ->
                  /\ Len(log) < MaxMsgs
                  /\ take_event(frame.event,
                                IF event_source.last_event_id # frame.event.id
                                THEN [event_source EXCEPT !.last_event_id = frame.event.id]
                                ELSE event_source)
                  /\ UNCHANGED fatal
            [] frame.kind = "comment" ->
                  UNCHANGED <<environments, changes, is_initialized, event_source,
                              log, outputs, fatal, observed>>
            [] frame.kind = "retry" ->
                  /\ event_source' = [event_source EXCEPT
                                         !.backoff = set_minimum_duration(@, frame.duration)]
                  /\ observed' = [observed EXCEPT !.retry = frame.duration]
                  /\ UNCHANGED <<environments, changes, is_initialized, log, outputs, fatal>>
            [] frame.kind = "error" ->
                  /\ frame.error \in StreamErrors(legacy)
                  /\ IF is_retryable(legacy, frame.error)
                     THEN /\ event_source' = [event_source EXCEPT !.state = "Retrying"]
                          /\ observed' = [observed EXCEPT !.cause = frame.error,
                                                          !.success = FALSE]
                          /\ UNCHANGED <<outputs, fatal>>
                     ELSE /\ event_source' = [event_source EXCEPT !.state = "Closed"]
                          /\ yield_error(frame.error, Len(requests), queries)
                          /\ observed' = [observed EXCEPT !.cause = frame.error,
                                                          !.success = FALSE]
                  /\ UNCHANGED <<environments, changes, is_initialized, log>>
            [] frame.kind = "end" ->
                  /\ yield_end
                  /\ UNCHANGED <<environments, changes, is_initialized, event_source,
                                 log, fatal, observed>>
    /\ UNCHANGED <<codec, tasks, legacy, requests, queries>>

\* EventSource::poll_next in state Retrying
poll_Retrying ==
    /\ Polling
    /\ source_polled(changes)
    /\ event_source.state = "Retrying"
    /\ queries' = queries + 1
    /\ \E elapsed \in BOOLEAN, d \in Delays :
          LET r == next_backoff(event_source.backoff, elapsed, d)
          IN IF r.duration # 0
             THEN /\ event_source' = [event_source EXCEPT !.state = "WaitingForRetry",
                                                          !.backoff = r.backoff,
                                                          !.sleep = r.duration]
                  /\ observed' = [observed EXCEPT !.cause = NoError, !.inner = r.inner]
                  /\ UNCHANGED <<outputs, fatal>>
             ELSE /\ event_source' = [event_source EXCEPT !.backoff = r.backoff]
                  /\ observed' = [observed EXCEPT !.cause = NoError, !.inner = r.inner]
                  /\ yield_error(MaxRetriesExceeded(event_source.past_retries),
                                 Len(requests), queries + 1)
    /\ UNCHANGED <<codec, tasks, legacy, environments, changes, is_initialized, requests, log>>

\* EventSource::poll_next in state WaitingForRetry, the sleep has elapsed
poll_WaitingForRetry ==
    /\ Polling
    /\ source_polled(changes)
    /\ event_source.state = "WaitingForRetry"
    /\ event_source' = [event_source EXCEPT !.state = "New", !.sleep = 0]
    /\ observed' = [observed EXCEPT !.inner = 0]
    /\ UNCHANGED <<codec, tasks, legacy, environments, changes, is_initialized,
                   requests, log, outputs, queries, fatal>>

\* EventSource::poll_next in state Closed
poll_Closed ==
    /\ Polling
    /\ source_polled(changes)
    /\ event_source.state = "Closed"
    /\ yield_end
    /\ UNCHANGED <<codec, tasks, legacy, environments, changes, is_initialized, event_source,
                   requests, log, queries, fatal, observed>>

\* ------------------------------------------------------ specifications
\* the merge engine fed every message over connections that do not fail
Next ==
    \/ poll_change
    \/ poll_New
    \/ poll_Connect(OkResponses)
    \/ poll_Connected(MergeFrames)

Spec == Init /\ [][Next]_vars

\* the event source with every response, frame and error, under the engine
NextTransport ==
    \/ poll_change
    \/ poll_New
    \/ poll_Connect(Responses)
    \/ poll_RequestError
    \/ poll_Connected(TransportFrames)
    \/ poll_Retrying
    \/ poll_WaitingForRetry
    \/ poll_Closed

SpecTransport == InitTransport /\ [][NextTransport]_vars

\* the event source over failing connections: every response, redirected
\* or not, every control frame and stream error, one message
NextRetry ==
    \/ poll_change
    \/ poll_New
    \/ poll_Connect(Responses \cup MovedResponses)
    \/ poll_RequestError
    \/ poll_Connected(RetryFrames)
    \/ poll_Retrying
    \/ poll_WaitingForRetry
    \/ poll_Closed

SpecRetry == InitTransport /\ [][NextRetry]_vars

\* the merge engine fed every message, well-formed or with keys that differ
\* from the env_id of the records
NextKeys ==
    \/ poll_change
    \/ poll_New
    \/ poll_Connect(OkResponses)
    \/ poll_Connected(KeyFrames)

SpecKeys == Init /\ [][NextKeys]_vars

\* ------------------------------------------------------- observations
IsPutRoot(e) == e.ok /\ e.event.name = "put" /\ e.event.data.path = "/"
IsPatch(e) == e.ok /\ e.event.name = "patch"
IsDelete(e) == e.ok /\ e.event.name = "delete"
IsReconnect(e) == e.ok /\ e.event.name = "reconnect"

\* the messages that emitted Initialized
InitializedAt == {i \in 1..Len(log) :
                    \E j \in 1..Len(log[i].changes) : log[i].changes[j].kind = "Initialized"}

\* the record that message i carries for key k, NoEnv if it carries none
Carried(i, k) ==
    IF IsPutRoot(log[i]) THEN log[i].event.data.environments[k]
    ELSE IF IsPatch(log[i]) /\ log[i].event.data.env_id = k
         THEN log[i].event.data.environment
         ELSE NoEnv

SetMax(S) == CHOOSE x \in S : \A y \in S : y <= x

\* C1: over the lifetime of one engine Initialized is emitted at most once
C1_AtMostOneInitialized == Cardinality(InitializedAt) <= 1

\* the versions of the records for k that were stored because k had no
\* record or a record of a smaller version
AcceptedVersions(k) ==
    {Carried(i, k).version : i \in {j \in 1..Len(log) :
        /\ Carried(j, k) # NoEnv
        /\ \/ log[j].before[k] = NoEnv
           \/ log[j].before[k].version < Carried(j, k).version}}

\* C2 as stated: the stored version of every present id is the maximum
\* version of any put/patch record seen for it that exceeded its predecessor
C2_StoredIsMaxAccepted ==
    \A k \in Keys(environments) : environments[k].version = SetMax(AcceptedVersions(k))

\* the message that inserted the record now stored for k
InsertedAt(k) == SetMax({i \in 1..Len(log) : Carried(i, k) # NoEnv /\ log[i].before[k] = NoEnv})

\* the versions of all records seen for k since it was last inserted
VersionsSince(k) ==
    {Carried(i, k).version : i \in {j \in InsertedAt(k)..Len(log) : Carried(j, k) # NoEnv}}

\* C2 amended: the stored version of every present id is the maximum version
\* of any put/patch record seen for it since the record was last inserted
C2_StoredIsMaxSinceInsert ==
    \A k \in Keys(environments) : environments[k].version = SetMax(VersionsSince(k))

C2_Witness ==
    \E k \in Keys(environments) :
        /\ Cardinality(VersionsSince(k)) >= 2
        /\ \E i \in 1..Len(log) : IsPatch(log[i]) /\ log[i].changes = <<>>

\* the Patch rule: what a record r carried for key k does to the map prev
PatchStored(prev, k, r) ==
    IF prev[k] = NoEnv \/ prev[k].version < r.version THEN r ELSE prev[k]

PatchEmitted(prev, k, r) ==
    IF prev[k] = NoEnv THEN <<Insert(r)>>
    ELSE IF prev[k].version < r.version THEN <<Update(prev[k], r)>>
         ELSE <<>>

\* C3: a Patch of a larger version replaces the record and emits exactly one
\* Update{prev = stored, curr = incoming}; a Patch of a smaller or equal
\* version emits nothing and leaves the map unchanged; a Patch for an id
\* without record inserts it and emits exactly one Insert
C3_PatchEffect ==
    \A i \in 1..Len(log) :
        IsPatch(log[i]) =>
            LET k == log[i].event.data.env_id
                r == log[i].event.data.environment
                prev == log[i].before
            IN /\ prev[k] = NoEnv =>
                    /\ log[i].changes = <<Insert(r)>>
                    /\ log[i].after = [prev EXCEPT ![k] = r]
               /\ (prev[k] # NoEnv /\ r.version > prev[k].version) =>
                    /\ log[i].changes = <<Update(prev[k], r)>>
                    /\ log[i].after = [prev EXCEPT ![k] = r]
               /\ (prev[k] # NoEnv /\ r.version <= prev[k].version) =>
                    /\ log[i].changes = <<>>
                    /\ log[i].after = prev
               /\ i = Len(log) => environments = log[i].after

C3_Witness ==
    /\ \E i \in 1..Len(log) : IsPatch(log[i]) /\ \E c \in {log[i].changes} :
                                  Len(c) = 1 /\ c[1].kind = "Update"
    /\ \E i \in 1..Len(log) : IsPatch(log[i]) /\ log[i].before[log[i].event.data.env_id] # NoEnv
                              /\ log[i].changes = <<>>

\* C4: a Delete of a version larger than the stored one removes the record
\* and emits exactly one Delete carrying the removed record; a Delete of a
\* smaller or equal version, or for an id without record, emits nothing and
\* leaves the map unchanged
C4_DeleteEffect ==
    \A i \in 1..Len(log) :
        IsDelete(log[i]) =>
            LET k == log[i].event.data.env_id
                v == log[i].event.data.version
                prev == log[i].before
            IN /\ (prev[k] # NoEnv /\ prev[k].version < v) =>
                    /\ log[i].changes = <<Delete(prev[k])>>
                    /\ log[i].after = [prev EXCEPT ![k] = NoEnv]
               /\ (prev[k] = NoEnv \/ prev[k].version >= v) =>
                    /\ log[i].changes = <<>>
                    /\ log[i].after = prev
               /\ i = Len(log) => environments = log[i].after

C4_Witness ==
    /\ \E i \in 1..Len(log) : IsDelete(log[i]) /\ Len(log[i].changes) = 1
    /\ \E i \in 1..Len(log) : IsDelete(log[i]) /\ log[i].changes = <<>>
                              /\ log[i].before[log[i].event.data.env_id] # NoEnv

\* the changes of message i that are about key k
ChangesAbout(i, k) ==
    SelectSeq(log[i].changes,
              LAMBDA c : \/ c.kind \in {"Insert", "Delete"} /\ c.env.env_id = k
                         \/ c.kind = "Update" /\ c.current.env_id = k)

\* C5: the same Put("/") payload delivered twice to a fresh engine emits
\* Initialized and one Insert per environment on the first delivery, and
\* nothing, with the map unchanged, on the second
C5_SamePutTwice ==
    (/\ Len(log) >= 2
     /\ IsPutRoot(log[1]) /\ IsPutRoot(log[2])
     /\ log[1].event.data = log[2].event.data) =>
        LET payload == log[1].event.data.environments
        IN /\ Len(log[1].changes) = 1 + Cardinality(Keys(payload))
           /\ log[1].changes[1] = Initialized
           /\ \A k \in Keys(payload) : ChangesAbout(1, k) = <<Insert(payload[k])>>
           /\ log[2].changes = <<>>
           /\ log[2].after = log[2].before

\* C6: a Put("/") on a non-empty map applies the Patch rule to every record
\* of the payload, and leaves every environment that the payload does not
\* carry in the map, unchanged and without a Delete
C6_PutMerges ==
    \A i \in 1..Len(log) :
        (IsPutRoot(log[i]) /\ Keys(log[i].before) # {}) =>
            LET payload == log[i].event.data.environments
                prev == log[i].before
            IN /\ \A k \in Keys(payload) :
                    /\ log[i].after[k] = PatchStored(prev, k, payload[k])
                    /\ ChangesAbout(i, k) = PatchEmitted(prev, k, payload[k])
               /\ \A k \in EnvIds \ Keys(payload) :
                    /\ log[i].after[k] = prev[k]
                    /\ ChangesAbout(i, k) = <<>>
               /\ \A j \in 1..Len(log[i].changes) :
                    log[i].changes[j].kind \in {"Insert", "Update"}
               /\ i = Len(log) => environments = log[i].after

C6_Witness ==
    \E i \in 1..Len(log) :
        /\ IsPutRoot(log[i])
        /\ \E k \in Keys(log[i].before) : k \notin Keys(log[i].event.data.environments)
        /\ \E j \in 1..Len(log[i].changes) : log[i].changes[j].kind = "Update"

\* the reconnect messages processed so far
ReconnectAt == {i \in 1..Len(log) : IsReconnect(log[i])}

\* C7: a reconnect message emits no change and leaves the map unchanged;
\* next the transport is in state New, it leaves New only by sending a new
\* request, and nothing is read again from a connection opened before
C7_ReconnectDrivesNew ==
    \A i \in ReconnectAt :
        /\ log[i].changes = <<>>
        /\ log[i].after = log[i].before
        /\ i = Len(log) => environments = log[i].before
        /\ (i = Len(log) /\ Len(requests) = log[i].requests) =>
              /\ event_source.state = "New"
              /\ changes = <<>>
        /\ event_source.state \in {"Connect", "Connected"} =>
              event_source.conn > log[i].requests
        /\ \A j \in (i + 1)..Len(log) : log[j].conn > log[i].requests

C7_Witness ==
    \E i \in ReconnectAt :
        /\ Keys(log[i].before) # {}
        /\ \E j \in (i + 1)..Len(log) : log[j].conn > log[i].conn

\* the id of the newest of the first n yielded events that carried an id
RECURSIVE LastIdOf(_)
LastIdOf(n) ==
    IF n = 0 THEN NoId
    ELSE IF log[n].event.id # NoId THEN log[n].event.id ELSE LastIdOf(n - 1)

\* C8: once an event carrying an id has been yielded, every later
\* connection attempt sends that most recent id as Last-Event-ID, after a
\* retryable error and after a reconnect message alike
C8_LastEventIdCarried ==
    \A n \in 1..Len(requests) :
        LastIdOf(requests[n].events) # NoId =>
            requests[n].last_event_id = LastIdOf(requests[n].events)

\* the changes the consumer has been handed, in the order of the polls
YieldedChanges ==
    LET sel == SelectSeq(outputs, LAMBDA o : o.kind = "change")
    IN [i \in 1..Len(sel) |-> sel[i].change]

\* the changes of the first n messages, in the order of the messages
RECURSIVE ProducedChanges(_)
ProducedChanges(n) ==
    IF n = 0 THEN <<>> ELSE ProducedChanges(n - 1) \o log[n].changes

\* C9: a poll drains the queue before it advances the event source, so the
\* changes are yielded in the order of the messages that produced them
C9_DrainInOrder ==
    /\ YieldedChanges \o changes = ProducedChanges(Len(log))
    /\ \A i \in 1..Len(log) : log[i].pending = 0

C9_Witness ==
    /\ Len(YieldedChanges) >= 3
    /\ \E i \in 1..Len(log) : Len(log[i].changes) >= 2
    /\ Cardinality({i \in 1..Len(log) : log[i].changes # <<>>}) >= 2

\* C10: a fatal error of the event source is yielded once and closes it:
\* every later poll yields end-of-sequence, and no connection attempt and no
\* backoff query follows
C10_FatalCloses ==
    fatal.at # 0 =>
        /\ event_source.state = "Closed"
        /\ \A j \in (fatal.at + 1)..Len(outputs) : outputs[j].kind = "end"
        /\ Len(requests) = fatal.requests
        /\ queries = fatal.queries

\* -------------------------------------------------- retries and backoff
IsError(o, type) == o.kind = "error" /\ o.error.type = type

\* C11: the retry counter counts every error, and MaxRetriesExceeded carries
\* it: the first MaxRetriesExceeded reports as many attempts as errors were
\* handled, one per query of the backoff, the exhausting one included
C11_AttemptsCounted ==
    (fatal.at # 0 /\ IsError(outputs[fatal.at], "MaxRetriesExceeded")) =>
        outputs[fatal.at].error.attempts = fatal.queries

\* C12: the wait that follows a query of the backoff is max(d, floor) of the
\* delay d the inner policy answered, never below the floor, and the query
\* answers None (MaxRetriesExceeded is yielded) exactly when the inner
\* policy is exhausted
C12_NextBackoffFloor ==
    /\ event_source.state = "WaitingForRetry" =>
          /\ observed.inner # 0
          /\ event_source.sleep = Max(observed.inner, event_source.backoff.minimum_duration)
          /\ event_source.sleep >= event_source.backoff.minimum_duration
          /\ ~event_source.backoff.expired
    /\ observed.inner # 0 => event_source.state = "WaitingForRetry"
    /\ (event_source.state = "Retrying" /\ observed.cause = NoError) =>
          /\ event_source.backoff.expired
          /\ IsError(outputs[Len(outputs)], "MaxRetriesExceeded")

C12_Witness ==
    /\ event_source.state = "WaitingForRetry"
    /\ event_source.backoff.minimum_duration > observed.inner
    /\ \E j \in 1..Len(outputs) : outputs[j].kind = "change"

\* C13: the floor of the backoff is the duration of the last Retry frame
\* read, also after the resets of later connections; every wait is at
\* least that long; the step that reads a Retry frame yields nothing
C13_RetryFloor ==
    /\ [](/\ event_source.backoff.minimum_duration = observed.retry
          /\ event_source.state = "WaitingForRetry" =>
                event_source.sleep >= observed.retry)
    /\ [][observed'.retry # observed.retry => outputs' = outputs]_vars

C13_Witness ==
    /\ event_source.state = "WaitingForRetry"
    /\ observed.retry > observed.inner
    /\ event_source.conn >= 2
    /\ \E n \in 1..Len(requests) : requests[n].events < Len(log)

\* C14: a connection attempt that follows, on the same event source, an
\* attempt answered with 301 to U' is issued against U'
C14_RetryUsesMovedUrl ==
    \A n \in 2..Len(requests) :
        (/\ requests[n - 1].moved
         /\ ~\E i \in ReconnectAt : log[i].requests = n - 1) =>
            requests[n].url = MovedUrl

\* the statuses that the claim and its amendment call retryable
ServerErrors == {s \in Statuses : s >= 500 /\ s < 600}

\* the handling of a transport error that carries a status, where R are the
\* retryable statuses: retried without an output, or yielded and closed;
\* a closed event source sends no request and stays closed
StatusHandled(R) ==
    /\ (event_source.state = "RequestError" /\ event_source.error.status # 0) =>
          IF event_source.error.status \in R
          THEN /\ event_source'.state = "Retrying"
               /\ outputs' = outputs
          ELSE /\ event_source'.state = "Closed"
               /\ outputs' = Append(outputs, [kind |-> "error", error |-> event_source.error])
    /\ event_source.state = "Closed" =>
          /\ event_source'.state = "Closed"
          /\ requests' = requests

\* C16 as stated: a transport error with a status is retried if and only if
\* the status is 5xx, 408 or 429; with any other status it is fatal and
\* closes the stream without a retry
C16_RetryableStatuses == [][StatusHandled(ServerErrors \cup {408, 429})]_vars

\* C16 amended: a transport error with a status is retried if and only if
\* the status is 5xx, 400, 408 or 429; with any other status it is fatal
\* and closes the stream without a retry
C16_RetryableStatusesWith400 == [][StatusHandled(ServerErrors \cup {400, 408, 429})]_vars

C16_Witness ==
    /\ event_source.state = "Closed"
    /\ fatal.at # 0
    /\ IsError(outputs[fatal.at], "RequestError")
    /\ outputs[fatal.at].error.status = 404
    /\ Len(requests) >= 2
    /\ Len(outputs) > fatal.at

\* C17: a breach of the decoder's size limit while streaming is yielded to
\* the caller and closes the event source: no backoff query and no
\* connection attempt follows
C17_SizeLimitFatal ==
    observed.cause = ExceededSizeLimit =>
        /\ event_source.state = "Closed"
        /\ fatal.at # 0
        /\ outputs[fatal.at].error = ExceededSizeLimit
        /\ Len(requests) = fatal.requests
        /\ queries = fatal.queries

\* C15: an event that does not parse into a message yields one
\* EventParseError, leaves the map and the queue as they are, and is fatal
\* to the engine: no change is yielded after the error
C15_ParseErrorFatal ==
    /\ \A i \in 1..Len(log) :
          ~log[i].ok => log[i].after = log[i].before /\ log[i].changes = <<>>
    /\ Cardinality({i \in 1..Len(log) : ~log[i].ok})
          = Cardinality({j \in 1..Len(outputs) : IsError(outputs[j], "EventParseError")})
    /\ \A j \in 1..Len(outputs) :
          IsError(outputs[j], "EventParseError") =>
              \A k \in (j + 1)..Len(outputs) : outputs[k].kind # "change"

\* a stream error: the cause of an error read from the frame stream
StreamCause(e) ==
    \/ e.type \in {"DecodeError", "ReadTimeoutElapsed"}
    \/ e.type = "RequestError" /\ e.cause = "body"

\* C27: the first retryable error after a connection that streamed leads to
\* a retry wait and not to MaxRetriesExceeded: the query of the backoff that
\* handles a stream error is answered with a delay
C27_FirstErrorRetries ==
    [][(event_source.state = "Retrying" /\ StreamCause(observed.cause)
           /\ queries' = queries + 1)
         => event_source'.state = "WaitingForRetry"]_vars

\* C28: the event source streams only the body of a response with a success
\* status: it is Connected only on such a response, and every event it
\* yields comes over one
C28_NoStreamWithoutSuccess ==
    /\ [](event_source.state = "Connected" => observed.success)
    /\ [][Len(log') > Len(log) => observed.success]_vars

\* C29: yielding an Event sets the recorded id to the id of the Event if it
\* has one, and leaves it as it is if the Event has none
C29_IdKeptWithoutId ==
    [][(Len(log') = Len(log) + 1 /\ event_source'.conn = event_source.conn)
         => event_source'.last_event_id
              = (IF log'[Len(log')].event.id # NoId THEN log'[Len(log')].event.id
                 ELSE event_source.last_event_id)]_vars

\* the map after the first n changes of a sequence are replayed onto an
\* empty map
RECURSIVE Replay(_, _)
Replay(seq, n) ==
    IF n = 0 THEN EmptyMap
    ELSE LET m == Replay(seq, n - 1)
             c == seq[n]
         IN CASE c.kind = "Insert" -> [m EXCEPT ![c.env.env_id] = c.env]
              [] c.kind = "Update" -> [m EXCEPT ![c.current.env_id] = c.current]
              [] c.kind = "Delete" -> [m EXCEPT ![c.env.env_id] = NoEnv]
              [] OTHER -> m

\* C30: whenever the change queue is empty, the changes yielded so far,
\* replayed onto an empty map, give the engine's environment map
C30_ChangesReplay ==
    changes = <<>> => Replay(YieldedChanges, Len(YieldedChanges)) = environments

\* C31: every record of the environment map is stored under its own env_id,
\* whatever put and patch messages have been processed, a Put("/") on an
\* empty map whose payload keys differ from the records' env_id included
C31_KeyIsEnvId ==
    \A k \in Keys(environments) : environments[k].env_id = k

\* ================================================================ codec
\* bytes are one-character strings, buffers are sequences of bytes
LF == "\n"
CR == "\r"
COLON == ":"
SPACE == " "
NUL == "NUL"
UTF8_BOM == <<"EF", "BB", "BF">>
DIGITS == <<"0", "1", "2", "3", "4", "5", "6", "7", "8", "9">>

\* Option<String>
None == [some |-> FALSE, value |-> <<>>]
Some(v) == [some |-> TRUE, value |-> v]

\* Frame<T> (lib.rs): Event, Comment, Retry; a Duration is in milliseconds
Event(id, name, data) == [kind |-> "Event", id |-> id, name |-> name, data |-> data]
Comment(value) == [kind |-> "Comment", value |-> value]
Retry(millis) == [kind |-> "Retry", duration |-> millis]

\* Buf::advance, BufExt::bump_if, BufMutExt::rbump, BufMutExt::rbump_if
advance(buf, n) == SubSeq(buf, n + 1, Len(buf))
bump_if(buf, byte) == IF buf # <<>> /\ Head(buf) = byte THEN Tail(buf) ELSE buf
rbump(buf) == IF buf # <<>> THEN SubSeq(buf, 1, Len(buf) - 1) ELSE buf
rbump_if(buf, byte) ==
    IF buf # <<>> /\ buf[Len(buf)] = byte THEN SubSeq(buf, 1, Len(buf) - 1) ELSE buf

\* buf[from..].iter().position(|b| bytes.contains(b)) + from, as an index
\* that counts from 0; -1 is None
position(buf, from, bytes) ==
    LET found == {i \in (from + 1)..Len(buf) : buf[i] \in bytes}
    IN IF found = {} THEN -1 ELSE (CHOOSE i \in found : \A j \in found : i <= j) - 1

\* slice.split(|b| b == b'\n'): the pieces between the line feeds
RECURSIVE split(_)
split(buf) ==
    LET at == position(buf, 0, {LF})
    IN IF at = -1 THEN <<buf>>
       ELSE <<SubSeq(buf, 1, at)>> \o split(advance(buf, at + 1))

\* u128::to_string
RECURSIVE to_string(_)
to_string(n) ==
    IF n < 10 THEN <<DIGITS[n + 1]>> ELSE to_string(n \div 10) \o <<DIGITS[(n % 10) + 1]>>

\* str::parse::<u64>: an optional plus sign, then digits only; -1 is Err
RECURSIVE parse_digits(_, _)
parse_digits(buf, acc) ==
    IF buf = <<>> THEN acc
    ELSE LET d == {i \in 1..10 : DIGITS[i] = Head(buf)}
         IN IF d = {} THEN -1
            ELSE parse_digits(Tail(buf), acc * 10 + ((CHOOSE i \in d : TRUE) - 1))

parse(buf) ==
    LET digits == bump_if(buf, "+")
    IN IF digits = <<>> THEN -1 ELSE parse_digits(digits, 0)

\* String::from_utf8(..).is_ok(): of the bytes in use, EF BB BF is valid
\* only as the sequence EF BB BF, every other byte is ASCII
RECURSIVE is_utf8(_)
is_utf8(buf) ==
    IF buf = <<>> THEN TRUE
    ELSE IF Head(buf) \in {"EF", "BB", "BF"}
         THEN Len(buf) >= 3 /\ SubSeq(buf, 1, 3) = UTF8_BOM /\ is_utf8(advance(buf, 3))
         ELSE is_utf8(Tail(buf))

\* ------------------------------------------------------------- encoder
\* SseEncoder::new
SseEncoder_new == [last_id |-> <<>>]

\* the "field: line\n" lines of a multi-line value
RECURSIVE encode_lines(_, _)
encode_lines(field, lines) ==
    IF lines = <<>> THEN <<>>
    ELSE field \o Head(lines) \o <<LF>> \o encode_lines(field, Tail(lines))

\* SseEncoder::encode: the encoder after it and the bytes put into dst
encode(encoder, item) ==
    CASE item.kind = "Comment" ->
            [encoder |-> encoder,
             bytes |-> encode_lines(<<COLON, SPACE>>, split(item.value))]
      [] item.kind = "Event" ->
            LET last_id == IF item.id.some /\ item.id.value # encoder.last_id
                           THEN item.id.value ELSE encoder.last_id
            IN [encoder |-> [encoder EXCEPT !.last_id = last_id],
                bytes |-> (IF last_id # <<>>
                           THEN <<"i", "d", COLON, SPACE>> \o last_id \o <<LF>>
                           ELSE <<>>)
                          \o <<"e", "v", "e", "n", "t", COLON, SPACE>> \o item.name \o <<LF>>
                          \o encode_lines(<<"d", "a", "t", "a", COLON, SPACE>>, split(item.data))
                          \o <<LF>>]
      [] item.kind = "Retry" ->
            [encoder |-> encoder,
             bytes |-> <<"r", "e", "t", "r", "y", COLON, SPACE>>
                       \o to_string(item.duration) \o <<LF>>]

\* ------------------------------------------------------- field decoder
\* FieldKind; UnknownField carries the field name
FieldKind(kind) == [kind |-> kind, name |-> <<>>]
UnknownField(name) == [kind |-> "UnknownField", name |-> name]

\* FieldFrame: Field(kind, value) and EmptyLine; NoFieldFrame is Ok(None)
Field(field_kind, value) == [frame |-> "Field", field_kind |-> field_kind, value |-> value]
EmptyLine == [frame |-> "EmptyLine", field_kind |-> FieldKind("none"), value |-> <<>>]
NoFieldFrame == [frame |-> "None", field_kind |-> FieldKind("none"), value |-> <<>>]

\* State of SseFieldDecoder
State_Bom == [st |-> "Bom", field_kind |-> FieldKind("none"), at |-> 0]
State_NextFrame == [st |-> "NextFrame", field_kind |-> FieldKind("none"), at |-> 0]
State_field_at(at) == [st |-> "Field", field_kind |-> FieldKind("none"), at |-> at]
State_value_at(kind, at) == [st |-> "Value", field_kind |-> kind, at |-> at]

\* the match on the field name in State::Field
field_kind_of(name) ==
    CASE name = <<"d", "a", "t", "a">> -> FieldKind("Data")
      [] name = <<"e", "v", "e", "n", "t">> -> FieldKind("Event")
      [] name = <<"r", "e", "t", "r", "y">> -> FieldKind("Retry")
      [] name = <<"i", "d">> -> FieldKind("Id")
      [] OTHER -> UnknownField(name)

\* a scanner that takes no prefix of a BOM for one
never_partial_bom(bom) == FALSE

\* the match arm "maybe a partial BOM" of State::Bom
maybe_partial_bom(bom) == bom \in {<<"EF">>, <<"EF", "BB">>}

\* SseFieldDecoder::decode: the scanner state and the buffer after the
\* call, and the field frame it returns
RECURSIVE field_decode(_, _)
field_decode(state, src) ==
    IF src = <<>> THEN [state |-> state, src |-> src, field |-> NoFieldFrame]
    ELSE CASE state.st = "Bom" ->
                LET read_to == IF Len(src) < 3 THEN Len(src) ELSE 3
                    bom == SubSeq(src, 1, read_to)
                IN IF bom = UTF8_BOM
                   THEN field_decode(State_NextFrame, advance(src, read_to))
                   ELSE IF maybe_partial_bom(bom)
                   THEN [state |-> state, src |-> src, field |-> NoFieldFrame]
                   ELSE field_decode(State_NextFrame, src)
           [] state.st = "NextFrame" ->
                IF src[1] = COLON
                THEN field_decode(State_value_at(FieldKind("Comment"), 0), advance(src, 1))
                ELSE IF src[1] = CR /\ Len(src) >= 2 /\ src[2] = LF
                THEN [state |-> State_NextFrame, src |-> advance(src, 2), field |-> EmptyLine]
                ELSE IF src[1] = LF
                THEN [state |-> State_NextFrame, src |-> advance(src, 1), field |-> EmptyLine]
                ELSE field_decode(State_field_at(0), src)
           [] state.st = "Field" ->
                LET index == position(src, state.at, {COLON, LF})
                IN IF index = -1
                   THEN [state |-> State_field_at(Len(src)), src |-> src,
                         field |-> NoFieldFrame]
                   ELSE IF src[index + 1] = COLON
                   THEN field_decode(State_value_at(field_kind_of(SubSeq(src, 1, index)), 0),
                                     advance(src, index + 1))
                   ELSE [state |-> State_NextFrame, src |-> advance(src, index + 1),
                         field |-> Field(UnknownField(SubSeq(src, 1, index + 1)), <<>>)]
           [] state.st = "Value" ->
                LET new_line_index == position(src, state.at, {LF})
                IN IF new_line_index = -1
                   THEN [state |-> State_value_at(state.field_kind, Len(src)), src |-> src,
                         field |-> NoFieldFrame]
                   ELSE [state |-> State_NextFrame, src |-> advance(src, new_line_index + 1),
                         field |-> Field(state.field_kind,
                                         bump_if(SubSeq(src, 1, new_line_index + 1), SPACE))]

\* ------------------------------------------------------------- decoder
MESSAGE_EVENT == <<"m", "e", "s", "s", "a", "g", "e">>
\* Cow<'static, str>: Borrowed(MESSAGE_EVENT) or Owned(value)
Borrowed_MESSAGE_EVENT == [owned |-> FALSE, value |-> MESSAGE_EVENT]
Owned(value) == [owned |-> TRUE, value |-> value]

\* SseDecoderImpl::with_max_size
with_max_size(max_buf_size) ==
    [field_decoder |-> State_Bom, data_buf |-> <<>>, event_type |-> Borrowed_MESSAGE_EVENT,
     event_id |-> <<>>, max_buf_len |-> max_buf_size, is_closed |-> FALSE]

\* SseDecoderImpl::buf_len, buf_remaining
buf_len(decoder) ==
    Len(decoder.data_buf) + Len(decoder.event_id)
    + (IF decoder.event_type.owned THEN Len(decoder.event_type.value) ELSE 0)

buf_remaining(decoder) ==
    IF decoder.max_buf_len > buf_len(decoder) THEN decoder.max_buf_len - buf_len(decoder) ELSE 0

\* SseDecoderImpl::reset, close
decoder_reset(decoder) == with_max_size(decoder.max_buf_len)
decoder_close(decoder) == [decoder_reset(decoder) EXCEPT !.is_closed = TRUE]

\* get_event_type
get_event_type(buf) == IF buf = MESSAGE_EVENT THEN Borrowed_MESSAGE_EVENT ELSE Owned(buf)

\* the results of decode: Ok(None), Ok(Some(frame)), Err(error)
Ok_None == [type |-> "None"]
Ok_Some(frame) == [type |-> "Frame", frame |-> frame]
Err(error) == [type |-> "Err", error |-> error]

\* value.rbump(); value.rbump_if(b'\r')
trim_line(value) == rbump_if(rbump(value), CR)

\* SseFieldDecoder::set_consumed tells the scanner how many bytes the decoder
\* holds; the scanner reads whole lines whatever their length
set_consumed(state, consumed) == state

\* the FieldKind::Id arm of decode, value already without its line end
decode_id(decoder, value) ==
    IF position(value, 0, {NUL}) # -1
    THEN [decoder |-> decoder, result |-> Ok_None]
    ELSE IF value # decoder.event_id
    THEN IF is_utf8(value)
         THEN [decoder |-> [decoder EXCEPT !.event_id = value], result |-> Ok_None]
         ELSE [decoder |-> decoder, result |-> Err("Utf8Error")]
    ELSE [decoder |-> decoder, result |-> Ok_None]

\* a decoder that forgets the id once an event is dispatched
dispatch_clearing_id(decoder) ==
    LET data == rbump(decoder.data_buf)
        next == [decoder EXCEPT !.data_buf = <<>>, !.event_type = Borrowed_MESSAGE_EVENT,
                                !.event_id = <<>>]
    IN IF data = <<>>
       THEN [decoder |-> next, result |-> Ok_None]
       ELSE [decoder |-> next,
             result |-> Ok_Some(Event(IF decoder.event_id = <<>> THEN None
                                      ELSE Some(decoder.event_id),
                                      decoder.event_type.value, data))]

\* the FieldFrame::EmptyLine arm of decode; Ok_None stands for `continue`
dispatch(decoder) ==
    LET data == rbump(decoder.data_buf)
        next == [decoder EXCEPT !.data_buf = <<>>, !.event_type = Borrowed_MESSAGE_EVENT]
    IN IF data = <<>>
       THEN [decoder |-> next, result |-> Ok_None]
       ELSE [decoder |-> next,
             result |-> Ok_Some(Event(IF decoder.event_id = <<>> THEN None
                                      ELSE Some(decoder.event_id),
                                      decoder.event_type.value, data))]

\* the while loop of SseDecoderImpl::decode; fields are the field frames the
\* call has taken from the field decoder
RECURSIVE decode_fields(_, _, _)
decode_fields(decoder, src, fields) ==
    LET r == field_decode(set_consumed(decoder.field_decoder, buf_len(decoder)), src)
        d == [decoder EXCEPT !.field_decoder = r.state]
        f == r.field
        seen == Append(fields, f)
        value == trim_line(f.value)
        Return(dec, result) == [decoder |-> dec, src |-> r.src, result |-> result,
                                fields |-> seen]
    IN CASE f.frame = "None" ->
              [decoder |-> d, src |-> r.src, result |-> Ok_None, fields |-> fields]
         [] f.frame = "EmptyLine" ->
              LET x == dispatch(d)
              IN IF x.result = Ok_None THEN decode_fields(x.decoder, r.src, seen)
                 ELSE Return(x.decoder, x.result)
         [] f.frame = "Field" /\ f.field_kind.kind = "Data" ->
              IF Len(f.value) > buf_remaining(d)
              THEN Return(decoder_close(d), Err("ExceededSizeLimit"))
              ELSE IF Len(f.value) >= 2
                      /\ SubSeq(f.value, Len(f.value) - 1, Len(f.value)) = <<CR, LF>>
              THEN decode_fields([d EXCEPT !.data_buf =
                                      @ \o SubSeq(f.value, 1, Len(f.value) - 2) \o <<LF>>],
                                 r.src, seen)
              ELSE decode_fields([d EXCEPT !.data_buf = @ \o f.value], r.src, seen)
         [] f.frame = "Field" /\ f.field_kind.kind = "Event" ->
              IF d.event_type.value # value
              THEN IF value = MESSAGE_EVENT \/ is_utf8(value)
                   THEN decode_fields([d EXCEPT !.event_type = get_event_type(value)],
                                      r.src, seen)
                   ELSE Return(d, Err("Utf8Error"))
              ELSE decode_fields(d, r.src, seen)
         [] f.frame = "Field" /\ f.field_kind.kind = "Retry" ->
              IF parse(value) = -1 THEN Return(d, Ok_None)
              ELSE Return(d, Ok_Some(Retry(parse(value))))
         [] f.frame = "Field" /\ f.field_kind.kind = "Comment" ->
              Return(d, Ok_Some(Comment(value)))
         [] f.frame = "Field" /\ f.field_kind.kind = "Id" ->
              LET x == decode_id(d, value)
              IN IF x.result = Ok_None THEN decode_fields(x.decoder, r.src, seen)
                 ELSE Return(x.decoder, x.result)
         [] f.frame = "Field" /\ f.field_kind.kind = "UnknownField" ->
              decode_fields(d, r.src, seen)

\* SseDecoderImpl::decode
decode(decoder, src) ==
    IF decoder.is_closed
    THEN [decoder |-> decoder, src |-> <<>>, result |-> Ok_None, fields |-> <<>>]
    ELSE decode_fields(decoder, src, <<>>)

\* -------------------------------------------------- encoder to decoder
\* usize::MAX, the limit of SseDecoderImpl::new: above every buffer length
usize_MAX == 2147483647
\* the smallest limit with_max_size accepts (max_buf_size > 7)
MinBufSize == 8

\* an encoder and a decoder joined by a byte stream: dst is what the encoder
\* has written and the reader has not taken yet, src the decoder's buffer
codec_new(max_buf_size) ==
    [encoder |-> SseEncoder_new, dst |-> <<>>, src |-> <<>>,
     decoder |-> with_max_size(max_buf_size),
     sent |-> <<>>,       \* every frame encoded, with the bytes it became
     received |-> <<>>,   \* every frame or error decode returned
     fields |-> <<>>]     \* the field frames the last call of decode took

LongData == <<"x", "x", "x", "x", "x", "x", "x", "x">>
CodecIds == {None, Some(<<>>), Some(<<"1">>), Some(<<"2">>), Some(<<NUL>>)}
CodecFrames ==
    {Event(id, <<"a">>, <<"x">>) : id \in CodecIds}
    \cup {Event(None, <<"a">>, data) : data \in {<<>>, <<"x", LF, "y">>, LongData}}
    \cup {Event(None, name, <<"x">>) : name \in {<<>>, MESSAGE_EVENT}}
    \cup {Comment(<<"c">>), Comment(<<"c", LF, "d">>)}
    \cup {Retry(3), Retry(15)}

InitCodec ==
    /\ legacy = FALSE
    /\ environments = EmptyMap
    /\ changes = <<>>
    /\ is_initialized = FALSE
    /\ event_source = create_event_source
    /\ requests = <<>>
    /\ log = <<>>
    /\ outputs = <<>>
    /\ queries = 0
    /\ fatal = NoFatal
    /\ observed = NoObserved
    /\ codec \in {codec_new(limit) : limit \in {MinBufSize, usize_MAX}}
    /\ tasks = NoTasks

engine_vars == <<legacy, environments, changes, is_initialized, event_source,
                 requests, log, outputs, queries, fatal, observed>>

\* SseEncoder::encode of one frame into dst
Encoder_encode(frames) ==
    /\ Len(codec.sent) < MaxFrames
    /\ \E item \in frames :
         LET r == encode(codec.encoder, item)
         IN codec' = [codec EXCEPT !.encoder = r.encoder,
                                   !.dst = @ \o r.bytes,
                                   !.sent = Append(@, [frame |-> item, wire |-> r.bytes])]
    /\ UNCHANGED <<engine_vars, tasks>>

\* FramedRead reads the bytes written so far into the decoder's buffer
FramedRead_read ==
    /\ codec.dst # <<>>
    /\ codec' = [codec EXCEPT !.src = @ \o codec.dst, !.dst = <<>>]
    /\ UNCHANGED <<engine_vars, tasks>>

\* one call of SseDecoderImpl::decode on the buffer
Decoder_decode ==
    /\ codec.src # <<>>
    /\ LET r == decode(codec.decoder, codec.src)
       IN codec' = [codec EXCEPT !.decoder = r.decoder,
                                 !.src = r.src,
                                 !.received = IF r.result = Ok_None THEN @
                                              ELSE Append(@, r.result),
                                 !.fields = r.fields]
    /\ UNCHANGED <<engine_vars, tasks>>

NextCodec ==
    \/ Encoder_encode(CodecFrames)
    \/ FramedRead_read
    \/ Decoder_decode

SpecCodec == InitCodec /\ [][NextCodec]_vars

\* ------------------------------------------------------- codec claims
\* the last non-empty id of the events among the first k frames sent
RECURSIVE LastNonEmptyId(_, _)
LastNonEmptyId(sent, k) ==
    IF k = 0 THEN None
    ELSE IF sent[k].frame.kind = "Event" /\ sent[k].frame.id.some
            /\ sent[k].frame.id.value # <<>>
    THEN sent[k].frame.id
    ELSE LastNonEmptyId(sent, k - 1)

\* the frames a receiver is to see for the first k frames sent: a Comment
\* line by line, a Retry as it is, an Event with its name, its data and the
\* id the stream gives it
RECURSIVE Equivalent(_, _)
Equivalent(sent, k) ==
    IF k = 0 THEN <<>>
    ELSE LET item == sent[k].frame
             lines == split(IF item.kind = "Comment" THEN item.value ELSE <<>>)
         IN Equivalent(sent, k - 1)
            \o CASE item.kind = "Comment" ->
                      [i \in 1..Len(lines) |-> Ok_Some(Comment(lines[i]))]
                 [] item.kind = "Retry" -> <<Ok_Some(item)>>
                 [] item.kind = "Event" ->
                      <<Ok_Some(Event(LastNonEmptyId(sent, k), item.name, item.data))>>

NulId(sent) ==
    \E k \in 1..Len(sent) :
        sent[k].frame.kind = "Event" /\ position(sent[k].frame.id.value, 0, {NUL}) # -1

Drained == codec.dst = <<>> /\ codec.src = <<>>

\* C18: once a decoder without size limit has read every byte the encoder
\* wrote for a sequence of frames (ids without NUL), the frames it returned
\* are the frames sent: equal Comments line by line, equal Retry durations,
\* Events with equal name and data and the id in force
C18_RoundTrip ==
    (Drained /\ codec.decoder.max_buf_len = usize_MAX /\ ~NulId(codec.sent))
        => codec.received = Equivalent(codec.sent, Len(codec.sent))

\* the id line of a wire form
IdLine(id) == <<"i", "d", COLON, SPACE>> \o id \o <<LF>>
StartsWith(buf, prefix) == Len(buf) >= Len(prefix) /\ SubSeq(buf, 1, Len(prefix)) = prefix

\* C19: the wire form of an Event that omits id begins with the id line of
\* the last non-empty id of the Events encoded before it
C19_IdSticky ==
    \A k \in 1..Len(codec.sent) :
        LET item == codec.sent[k].frame
            last == LastNonEmptyId(codec.sent, k - 1)
        IN (item.kind = "Event" /\ ~item.id.some /\ last.some)
               => StartsWith(codec.sent[k].wire, IdLine(last.value))

\* the id fields without a NUL byte among the field frames of a decode call
IdFields(fields) ==
    {i \in 1..Len(fields) :
        /\ fields[i].frame = "Field"
        /\ fields[i].field_kind.kind = "Id"
        /\ position(fields[i].value, 0, {NUL}) = -1}

Dispatched == codec.received # <<>> /\ codec.received[Len(codec.received)].type = "Frame"
                 /\ codec.received[Len(codec.received)].frame.kind = "Event"

IdChangeFromField ==
    (codec'.decoder.event_id # codec.decoder.event_id /\ ~codec'.decoder.is_closed)
        => /\ IdFields(codec'.fields) # {}
           /\ \E i \in IdFields(codec'.fields) :
                /\ \A j \in IdFields(codec'.fields) : j <= i
                /\ codec'.decoder.event_id = trim_line(codec'.fields[i].value)

DispatchCarriesId ==
    (Len(codec'.received) > Len(codec.received) /\ Dispatched')
        => codec'.received[Len(codec'.received)].frame.id
             = (IF codec'.decoder.event_id = <<>> THEN None
                ELSE Some(codec'.decoder.event_id))

SSEDecoder_with_max_size(max_buf_size) ==
    [data_buf |-> <<>>, event_type |-> <<>>, event_id |-> <<>>, next_line_index |-> 0,
     line_count |-> 0, max_buf_len |-> max_buf_size, is_closed |-> FALSE]

\* SSEDecoder::current_event_type
current_event_type(decoder) ==
    IF decoder.event_type = <<>> THEN MESSAGE_EVENT ELSE decoder.event_type

\* SSEDecoder::buf_len, buf_remaining
SSEDecoder_buf_len(decoder) ==
    Len(decoder.data_buf) + Len(decoder.event_id) + Len(decoder.event_type)

SSEDecoder_buf_remaining(decoder) ==
    IF decoder.max_buf_len > SSEDecoder_buf_len(decoder)
    THEN decoder.max_buf_len - SSEDecoder_buf_len(decoder) ELSE 0

\* SSEDecoder::reset, close
SSEDecoder_reset(decoder) ==
    [decoder EXCEPT !.data_buf = <<>>, !.event_type = <<>>, !.line_count = 0,
                    !.next_line_index = 0, !.is_closed = FALSE]

SSEDecoder_close(decoder) ==
    [decoder EXCEPT !.is_closed = TRUE, !.data_buf = <<>>, !.event_type = <<>>]

\* BufExt::strip_utf8_bom
strip_utf8_bom(buf) ==
    IF Len(buf) >= 3 /\ SubSeq(buf, 1, 3) = UTF8_BOM THEN advance(buf, 3) ELSE buf

\* a slice whose start lies behind its end makes the thread panic
Panic == [type |-> "Panic"]

\* SSEDecoder::decode_line: Ok(Some(line)) is [type |-> "Line"]
decode_line(decoder, src) ==
    IF decoder.is_closed
    THEN [decoder |-> decoder, src |-> <<>>, result |-> Ok_None, line |-> <<>>]
    ELSE LET max_read_len == SSEDecoder_buf_remaining(decoder)
             read_to == IF max_read_len < Len(src) THEN max_read_len ELSE Len(src)
             newline_index == position(SubSeq(src, 1, read_to), decoder.next_line_index, {LF})
         IN IF decoder.next_line_index > read_to
            THEN [decoder |-> decoder, src |-> src, result |-> Panic, line |-> <<>>]
            ELSE IF newline_index # -1
            THEN [decoder |-> [decoder EXCEPT !.next_line_index = 0,
                                              !.line_count = @ + 1],
                  src |-> advance(src, newline_index + 1),
                  result |-> [type |-> "Line"],
                  line |-> rbump_if(SubSeq(src, 1, newline_index), CR)]
            ELSE IF Len(src) > max_read_len
            THEN [decoder |-> SSEDecoder_close(decoder), src |-> <<>>,
                  result |-> Err("ExceededSizeLimit"), line |-> <<>>]
            ELSE [decoder |-> [decoder EXCEPT !.next_line_index = read_to], src |-> src,
                  result |-> Ok_None, line |-> <<>>]

\* the arms of the field match of SSEDecoder::decode for one line with a
\* colon: the decoder after it and Ok_None for `continue`
decode_field(decoder, field, value) ==
    CASE field = <<"e", "v", "e", "n", "t">> ->
            IF is_utf8(value)
            THEN [decoder |-> [decoder EXCEPT !.event_type = value], result |-> Ok_None]
            ELSE [decoder |-> decoder, result |-> Err("Utf8Error")]
      [] field = <<"d", "a", "t", "a">> ->
            IF Len(value) + 1 > SSEDecoder_buf_remaining(decoder)
            THEN [decoder |-> SSEDecoder_close(decoder), result |-> Err("ExceededSizeLimit")]
            ELSE [decoder |-> [decoder EXCEPT !.data_buf = @ \o value \o <<LF>>],
                  result |-> Ok_None]
      [] field = <<"i", "d">> ->
            IF position(value, 0, {NUL}) # -1
            THEN [decoder |-> decoder, result |-> Ok_None]
            ELSE IF is_utf8(value)
            THEN [decoder |-> [decoder EXCEPT !.event_id = value], result |-> Ok_None]
            ELSE [decoder |-> decoder, result |-> Err("Utf8Error")]
      [] field = <<"r", "e", "t", "r", "y">> ->
            IF parse(value) = -1 THEN [decoder |-> decoder, result |-> Ok_None]
            ELSE [decoder |-> decoder, result |-> Ok_Some(Retry(parse(value)))]
      [] OTHER -> [decoder |-> decoder, result |-> Ok_None]

\* a dispatch that keeps the event type when it has no data to emit
SSEDecoder_dispatch_keeping_type(decoder) ==
    IF decoder.data_buf = <<>>
    THEN [decoder |-> decoder, result |-> Ok_None]
    ELSE LET data == rbump_if(decoder.data_buf, LF)
         IN IF is_utf8(data)
            THEN [decoder |-> [decoder EXCEPT !.event_type = <<>>, !.data_buf = <<>>],
                  result |-> Ok_Some(Event(IF decoder.event_id = <<>> THEN None
                                           ELSE Some(decoder.event_id),
                                           current_event_type(decoder), data))]
            ELSE [decoder |-> [decoder EXCEPT !.event_type = <<>>, !.data_buf = data],
                  result |-> Err("Utf8Error")]

\* the event dispatch of SSEDecoder::decode, taken on an empty line; an
\* empty data buffer ends the call with Ok(None)
SSEDecoder_dispatch(decoder) ==
    IF decoder.data_buf = <<>>
    THEN [decoder |-> [decoder EXCEPT !.event_type = <<>>], result |-> Ok_None]
    ELSE LET data == rbump_if(decoder.data_buf, LF)
         IN IF is_utf8(data)
            THEN [decoder |-> [decoder EXCEPT !.event_type = <<>>, !.data_buf = <<>>],
                  result |-> Ok_Some(Event(IF decoder.event_id = <<>> THEN None
                                           ELSE Some(decoder.event_id),
                                           current_event_type(decoder), data))]
            ELSE [decoder |-> [decoder EXCEPT !.event_type = <<>>, !.data_buf = data],
                  result |-> Err("Utf8Error")]

\* one round of the loop of SSEDecoder::decode: r is what decode_line
\* returned, fields are the lines the call has taken, as field frames
RECURSIVE SSEDecoder_lines(_, _, _)
SSEDecoder_line(r, fields) ==
    LET line == r.line
        head == SubSeq(line, 1, IF Len(line) < 6 THEN Len(line) ELSE 6)
        colon_pos == position(head, 0, {COLON})
        field == SubSeq(line, 1, colon_pos)
        value == bump_if(advance(line, colon_pos + 1), SPACE)
        Return(dec, result, seen) ==
            [decoder |-> dec, src |-> r.src, result |-> result, fields |-> seen]
    IN IF r.result.type # "Line" THEN Return(r.decoder, r.result, fields)
       ELSE IF line = <<>>
       THEN LET x == SSEDecoder_dispatch(r.decoder)
            IN Return(x.decoder, x.result, Append(fields, EmptyLine))
       ELSE IF line[1] = COLON
       THEN LET comment == bump_if(advance(line, 1), SPACE)
                seen == Append(fields, Field(FieldKind("Comment"), comment))
            IN IF is_utf8(comment) THEN Return(r.decoder, Ok_Some(Comment(comment)), seen)
               ELSE Return(r.decoder, Err("Utf8Error"), seen)
       ELSE IF colon_pos = -1
       THEN SSEDecoder_lines(r.decoder, r.src, Append(fields, Field(UnknownField(line), <<>>)))
       ELSE LET x == decode_field(r.decoder, field, value)
                seen == Append(fields, Field(field_kind_of(field), value))
            IN IF x.result = Ok_None THEN SSEDecoder_lines(x.decoder, r.src, seen)
               ELSE Return(x.decoder, x.result, seen)

\* the loop of SSEDecoder::decode
SSEDecoder_lines(decoder, src, fields) ==
    CHOOSE out \in {SSEDecoder_line(r, seen) : r \in {decode_line(decoder, src)},
                                               seen \in {fields}} : TRUE

\* SSEDecoder::decode
SSEDecoder_decode(decoder, src) ==
    SSEDecoder_lines(decoder, IF decoder.line_count = 0 THEN strip_utf8_bom(src) ELSE src,
                     <<>>)

\* SSEDecoder::decode_eof: the match on r, what self.decode(buf) returned
SSEDecoder_decode_eof(r) ==
    IF r.result = Ok_None /\ r.src # <<>>
    THEN [r EXCEPT !.result = Err("UnexpectedEof")]
    ELSE r

\* SseDecoderImpl::decode_eof: the match on r, what self.decode(src) returned
decode_eof(r) ==
    IF r.result = Ok_None /\ ~(r.src = <<>> /\ r.decoder.data_buf = <<>>)
    THEN [r EXCEPT !.result = Err("UnexpectedEof")]
    ELSE r

\* ------------------------------------------------- byte stream to decoder
\* what one read of the byte stream can bring
Chunks ==
    LET DataField == <<"d", "a", "t", "a", COLON, SPACE>>
        EventField == <<"e", "v", "e", "n", "t", COLON, SPACE>>
        IdField == <<"i", "d", COLON, SPACE>>
        RetryField == <<"r", "e", "t", "r", "y", COLON, SPACE>>
    IN {DataField \o <<"x", LF>>,
        DataField \o <<LF>>,
        DataField \o <<"BB", LF>>,
        DataField \o <<"y">>,
        DataField \o LongData \o <<LF>>,
        <<LF>>,
        <<CR>>,
        <<LF, LF>> \o DataField \o <<"x", LF, LF>>,
        EventField \o <<"a", LF>>,
        IdField \o <<"1", LF>>,
        IdField \o LongData \o <<"x", LF>>,
        IdField \o <<"BB", LF>>,
        RetryField \o <<"3", LF>>,
        RetryField \o <<"+", "3", LF>>,
        RetryField \o <<"x", LF>>,
        RetryField \o <<"x", LF>> \o DataField \o <<"x", LF, LF>>,
        <<COLON, SPACE, "c", LF>>,
        <<"d", "a", "t", "a", LF>>,
        <<"x", LF>>,
        <<"EF">>,
        <<"BB", "BF">>,
        UTF8_BOM \o DataField \o <<"x", LF>>}

\* a decoder fed by FramedRead: variant names the decoder, SSEDecoder of
\* decoder.rs or SseDecoderImpl; src is the read buffer, readable says that
\* the decoder is to be called before the next read, eof that the stream
\* has ended
stream_new(variant, decoder) ==
    [variant |-> variant, decoder |-> decoder, src |-> <<>>,
     nread |-> 0, eof |-> FALSE, readable |-> FALSE,
     called |-> "none",        \* the last call: "decode", "decode_eof", "reset"
     before |-> <<>>,          \* the buffer the last call was given
     result |-> Ok_None,       \* what the last call returned
     fields |-> <<>>,          \* the fields the last call took
     errors |-> {}]            \* the errors reported since construction or reset

InitDecoder ==
    /\ legacy = FALSE
    /\ environments = EmptyMap
    /\ changes = <<>>
    /\ is_initialized = FALSE
    /\ event_source = create_event_source
    /\ requests = <<>>
    /\ log = <<>>
    /\ outputs = <<>>
    /\ queries = 0
    /\ fatal = NoFatal
    /\ observed = NoObserved
    /\ \E limit \in {MinBufSize, usize_MAX} :
         codec \in {stream_new("SSEDecoder", SSEDecoder_with_max_size(limit)),
                    stream_new("SseDecoderImpl", with_max_size(limit))}
    /\ tasks = NoTasks

\* FramedRead reads once the decoder has asked for more
Stream_read(chunks) ==
    /\ ~codec.readable /\ ~codec.eof
    /\ codec.result # Panic
    /\ codec.nread < MaxChunks
    /\ \E chunk \in chunks :
         codec' = [codec EXCEPT !.src = @ \o chunk, !.nread = @ + 1, !.readable = TRUE]
    /\ UNCHANGED <<engine_vars, tasks>>

\* the read that finds the end of the stream
Stream_eof ==
    /\ ~codec.readable /\ ~codec.eof
    /\ codec.result # Panic
    /\ codec' = [codec EXCEPT !.eof = TRUE, !.readable = TRUE]
    /\ UNCHANGED <<engine_vars, tasks>>

\* one call of decode, or of decode_eof once the stream has ended
Stream_decode ==
    /\ codec.readable
    /\ \E d \in {IF codec.variant = "SSEDecoder"
                 THEN SSEDecoder_decode(codec.decoder, codec.src)
                 ELSE decode(codec.decoder, codec.src)} :
         LET r == IF ~codec.eof THEN d
                  ELSE IF codec.variant = "SSEDecoder" THEN SSEDecoder_decode_eof(d)
                  ELSE decode_eof(d)
         IN codec' = [codec EXCEPT !.decoder = r.decoder,
                                   !.src = r.src,
                                   !.called = IF codec.eof THEN "decode_eof" ELSE "decode",
                                   !.before = codec.src,
                                   !.result = r.result,
                                   !.fields = r.fields,
                                   !.readable = r.result.type = "Frame",
                                   !.errors = IF r.result.type = "Err"
                                              THEN @ \cup {r.result.error} ELSE @]
    /\ UNCHANGED <<engine_vars, tasks>>

\* the owner of a decoder that has reported an error calls reset()
Stream_reset ==
    /\ codec.errors # {}
    /\ codec.result # Panic
    /\ codec' = [codec EXCEPT !.decoder = IF codec.variant = "SSEDecoder"
                                          THEN SSEDecoder_reset(@) ELSE decoder_reset(@),
                              !.called = "reset", !.before = <<>>, !.result = Ok_None,
                              !.fields = <<>>, !.errors = {}]
    /\ UNCHANGED <<engine_vars, tasks>>

NextDecoder ==
    \/ Stream_read(Chunks)
    \/ Stream_eof
    \/ Stream_decode
    \/ Stream_reset

SpecDecoder == InitDecoder /\ [][NextDecoder]_vars

\* ------------------------------------------------------ decoder claims
\* the decoder's own count of the bytes it holds
BufLen ==
    IF codec.variant = "SSEDecoder" THEN SSEDecoder_buf_len(codec.decoder)
    ELSE buf_len(codec.decoder)

\* C21: after every call of decode or decode_eof the bytes held in data_buf,
\* event_type and event_id together are at most max_buf_len, or the decoder
\* is closed and has reported ExceededSizeLimit; the bytes of event: and id:
\* fields count as those of data: fields do
C21_BufferCap ==
    codec.called \in {"decode", "decode_eof"}
       => \/ BufLen <= codec.decoder.max_buf_len
          \/ codec.decoder.is_closed /\ "ExceededSizeLimit" \in codec.errors

\* a step that calls decode or decode_eof on a decoder that has reported an
\* error and has not been reset since
CallAfterError ==
    /\ codec.errors # {}
    /\ codec.readable
    /\ codec'.called \in {"decode", "decode_eof"}

\* C22: once decode or decode_eof has reported an error, whichever it is, the
\* decoder is closed, and until reset() every later call discards its input
\* and returns no frame
C22_ErrorCloses ==
    /\ [](codec.errors # {} => codec.decoder.is_closed)
    /\ [][CallAfterError => (codec'.src = <<>> /\ codec'.result = Ok_None)]_vars

\* the value of a field the last call took, without its line end
FieldValue(f) == IF codec.variant = "SSEDecoder" THEN f.value ELSE trim_line(f.value)

\* the event type a decoder is to have after the first k of the fields when
\* it had the type name before them: an empty line puts "message" back, an
\* event field sets its value, every other field leaves the type alone
RECURSIVE NameAfter(_, _, _)
NameAfter(name, fields, k) ==
    IF k = 0 THEN name
    ELSE IF fields[k].frame = "EmptyLine" THEN MESSAGE_EVENT
    ELSE IF fields[k].field_kind.kind = "Event" THEN FieldValue(fields[k])
    ELSE NameAfter(name, fields, k - 1)

EventTypeOf(c) ==
    IF c.variant = "SSEDecoder" THEN current_event_type(c.decoder)
    ELSE c.decoder.event_type.value

\* a step that calls decode or decode_eof on an open decoder and that
\* returns no error
CallWithoutError ==
    /\ codec.readable
    /\ ~codec.decoder.is_closed
    /\ codec'.called \in {"decode", "decode_eof"}
    /\ codec'.result.type \in {"None", "Frame"}

\* C23: an empty line, whether it emits an Event or not, leaves the current
\* event type at "message"; an event: field names the next Event dispatched
\* and no later one, and an Event with no event: field before it is named
\* "message"
C23_EventTypeReset ==
    [][CallWithoutError =>
          LET n == Len(codec'.fields)
          IN /\ EventTypeOf(codec') = NameAfter(EventTypeOf(codec), codec'.fields, n)
             /\ (codec'.result.type = "Frame" /\ codec'.result.frame.kind = "Event")
                   => /\ codec'.fields[n] = EmptyLine
                      /\ codec'.result.frame.name
                            = NameAfter(EventTypeOf(codec), codec'.fields, n - 1)]_vars

\* an Event named by an event: field has been dispatched and the type is
\* back at "message"
C23_Witness ==
    /\ codec.called = "decode"
    /\ codec.result.type = "Frame"
    /\ codec.result.frame.kind = "Event"
    /\ codec.result.frame.name = <<"a">>
    /\ EventTypeOf(codec) = MESSAGE_EVENT

\* what decode, called again and again on the buffer, comes to: the first
\* frame or error, or Ok(None) once a call takes no more bytes
RECURSIVE Flush(_, _)
Flush(decoder, src) ==
    CHOOSE out \in
        {IF r.result # Ok_None \/ Len(r.src) = Len(src) THEN r
         ELSE Flush(r.decoder, r.src) :
            r \in {IF codec.variant = "SSEDecoder" THEN SSEDecoder_decode(decoder, src)
                   ELSE decode(decoder, src)}} : TRUE

\* a step that calls decode_eof on an open decoder
CallEof ==
    /\ codec.eof /\ codec.readable
    /\ ~codec.decoder.is_closed
    /\ codec'.called = "decode_eof"

\* C24: decode_eof returns a final frame whenever the buffer holds one; it
\* reports UnexpectedEof when bytes are buffered that give no frame (as in
\* "event: foo\ndata: bar"), and it ends cleanly, with Ok(None), only when
\* nothing is buffered
C24_EofFlushes ==
    [][CallEof =>
          LET can == Flush(codec.decoder, codec.src)
          IN /\ can.result.type = "Frame" => codec'.result.type = "Frame"
             /\ (can.result = Ok_None /\ can.src # <<>>)
                   => codec'.result = Err("UnexpectedEof")
             /\ codec'.result = Ok_None => can.src = <<>>]_vars

\* the value is one or more ASCII digits and nothing else
AsciiDigits(value) ==
    value # <<>> /\ \A i \in 1..Len(value) : \E d \in 1..Len(DIGITS) : value[i] = DIGITS[d]

\* the buffers that hold the event being put together
Pending(c) == <<c.decoder.data_buf, EventTypeOf(c), c.decoder.event_id>>

\* C25: a retry: field whose value is ASCII digits only makes decode return
\* Frame::Retry with that number of milliseconds; with any other value (empty,
\* signed, with a space or a letter) the field is ignored: decode returns no
\* frame for it and the event being put together stays as it was
C25_RetryDigitsOnly ==
    [][CallWithoutError =>
          LET n == Len(codec'.fields)
              isretry == n > 0 /\ codec'.fields[n].frame = "Field"
                               /\ codec'.fields[n].field_kind.kind = "Retry"
              value == FieldValue(codec'.fields[n])
          IN isretry =>
                IF AsciiDigits(value)
                THEN codec'.result = Ok_Some(Retry(parse_digits(value, 0)))
                ELSE /\ codec'.result = Ok_None
                     /\ n = 1 => Pending(codec') = Pending(codec)]_vars

\* a step that calls decode or decode_eof on an open SseDecoderImpl, which
\* reads its fields through the field scanner
ScannerCall ==
    /\ codec.variant = "SseDecoderImpl"
    /\ codec.readable
    /\ ~codec.decoder.is_closed
    /\ codec'.called \in {"decode", "decode_eof"}

\* the first field the call took holds the byte EF in its name
KeptAsFieldBytes(fields) ==
    /\ fields[1].frame = "Field"
    /\ fields[1].field_kind.kind = "UnknownField"
    /\ fields[1].field_kind.name[1] = "EF"

\* C26: the field scanner skips the BOM EF BB BF at the very start of a fresh
\* stream and nowhere else, also when the BOM comes in over several calls: a
\* buffer that is a proper prefix of the BOM is held, no byte taken and no
\* field returned, until more input tells; a prefix that does not go on to a
\* BOM, and BOM bytes later in the stream, are kept as field bytes
C26_BomOnlyAtStart ==
    [][ScannerCall =>
          LET st == codec.decoder.field_decoder.st
              b == codec.src
              partial == b \in {<<"EF">>, <<"EF", "BB">>}
              isbom == Len(b) >= 3 /\ SubSeq(b, 1, 3) = UTF8_BOM
              skipped == decode([codec.decoder EXCEPT !.field_decoder = State_NextFrame],
                                advance(b, 3))
          IN /\ (st = "Bom" /\ partial)
                   => /\ codec'.src = b
                      /\ codec'.fields = <<>>
                      /\ codec'.decoder.field_decoder.st = "Bom"
             /\ (st = "Bom" /\ isbom)
                   => /\ codec'.src = skipped.src
                      /\ codec'.fields = skipped.fields
                      /\ codec'.decoder = skipped.decoder
             /\ (b # <<>> /\ b[1] = "EF" /\ ~(st = "Bom" /\ (partial \/ isbom))
                   /\ codec'.fields # <<>>)
                   => KeptAsFieldBytes(codec'.fields)
             /\ (st # "Bom" /\ ~codec'.decoder.is_closed)
                   => codec'.decoder.field_decoder.st # "Bom"]_vars

\* the first byte of a BOM has come in alone and the call has held it
C26_Witness ==
    /\ codec.variant = "SseDecoderImpl"
    /\ codec.called = "decode"
    /\ codec.before = <<"EF">>
    /\ codec.src = <<"EF">>
    /\ codec.decoder.field_decoder.st = "Bom"

\* the data buffer a decoder is to have after the first k of the fields when
\* it held buf before them: a data field appends its value and a line feed,
\* an empty line takes the buffer away, every other field leaves it alone
RECURSIVE DataAfter(_, _, _)
DataAfter(buf, fields, k) ==
    IF k = 0 THEN buf
    ELSE IF fields[k].frame = "EmptyLine" THEN <<>>
    ELSE IF fields[k].field_kind.kind = "Data"
    THEN DataAfter(buf, fields, k - 1) \o FieldValue(fields[k]) \o <<LF>>
    ELSE DataAfter(buf, fields, k - 1)

\* C32: an empty line emits no Event when no data: field has come in since
\* the last dispatch; otherwise it strips exactly one line feed from the end
\* of the data and emits one Event, so "data:" with an empty value and an
\* empty line emit an Event whose data is empty
C32_DispatchRule ==
    [][CallWithoutError =>
          LET n == Len(codec'.fields)
              pre == DataAfter(codec.decoder.data_buf, codec'.fields, n - 1)
          IN (n > 0 /\ codec'.fields[n] = EmptyLine)
                => IF pre = <<>> THEN codec'.result = Ok_None
                   ELSE /\ codec'.result.type = "Frame"
                        /\ codec'.result.frame.kind = "Event"
                        /\ codec'.result.frame.data = rbump(pre)]_vars

\* the scanner state that stands at the same place of the stream and has
\* looked at none of the buffered bytes yet
Unscanned(state) ==
    CASE state.st = "Field" -> State_NextFrame
      [] state.st = "Value" -> State_value_at(state.field_kind, 0)
      [] OTHER -> state

\* C33: the frames the field scanner produces depend on the bytes of the
\* stream only, not on the calls they come in with: a call that goes on from
\* where an earlier call stopped for lack of input takes the same fields,
\* and leaves the same bytes, as a scan of the buffered bytes in one piece,
\* also when CR LF or an empty line is split between two reads
C33_ChunkingIndependent ==
    [][ScannerCall =>
          LET whole == decode([codec.decoder EXCEPT
                                  !.field_decoder = Unscanned(codec.decoder.field_decoder)],
                              codec.src)
          IN /\ codec'.fields = whole.fields
             /\ codec'.src = whole.src]_vars

\* C34: when decode returns None on a decoder that is not closed, no
\* complete line is left in the buffer: the lines buffered have all been
\* taken, so an event that is wholly buffered is not held back until more
\* bytes come, neither after an ignored retry: field nor after an empty line
\* without data
C34_NoneMeansNoLine ==
    (codec.called = "decode" /\ codec.result = Ok_None /\ ~codec.decoder.is_closed)
       => position(codec.src, 0, {LF}) = -1

\* a step in which the dispatch of an event fails with a Utf8 error
DispatchFails ==
    /\ codec.readable
    /\ ~codec.decoder.is_closed
    /\ codec'.called \in {"decode", "decode_eof"}
    /\ codec'.result = Err("Utf8Error")
    /\ codec'.fields # <<>>
    /\ codec'.fields[Len(codec'.fields)] = EmptyLine

\* C35: a Utf8 error at the dispatch of one event leaves nothing of that
\* event behind: data_buf is empty after the failed dispatch, so the data of
\* the next Event is made of the data: fields that come after it
C35_FailedDispatchClears ==
    [][DispatchFails => codec'.decoder.data_buf = <<>>]_vars

\* C36: in the line decoder the index saved to resume the search for a line
\* end is never beyond the end of the buffer at the next call, also when a
\* BOM comes in over two reads and is stripped at the second call: the slice
\* src[next_line_index..read_to] is a valid range in every call (a closed
\* decoder takes no slice)
C36_ResumeIndexInRange ==
    codec.variant = "SSEDecoder"
       => /\ codec.result # Panic
          /\ ~codec.decoder.is_closed => codec.decoder.next_line_index <= Len(codec.src)

\* the name of an unknown field without the line end the field scanner
\* leaves on the name of a line that has no colon
BareName(f) ==
    LET name == f.field_kind.name
    IN IF name # <<>> /\ name[Len(name)] = LF THEN trim_line(name) ELSE name

\* C37: a line with no colon is a field whose name is the whole line and
\* whose value is empty, and the kind of the field is decided from that name
\* as for a line with a colon: no line named data, event, id or retry is
\* taken as an unknown field, a bare line "data" is a data field with an
\* empty value
C37_BareLineKind ==
    \A i \in 1..Len(codec.fields) :
        LET f == codec.fields[i]
        IN (f.frame = "Field" /\ f.field_kind.kind = "UnknownField")
              => field_kind_of(BareName(f)).kind = "UnknownField"

\* the buffer of the decoder begins at the start of a line: SSEDecoder splits
\* whole lines off the buffer, the field scanner is within a line only in
\* State::Value, with the name and the colon taken
AtLineStart(c) ==
    c.variant = "SseDecoderImpl" => c.decoder.field_decoder.st \in {"NextFrame", "Field"}

\* C38: CR LF, a lone CR and a lone LF each end a line: a call on a decoder
\* that holds the data of an event, given a buffer that begins with a CR
\* which no LF follows, takes that CR as an empty line, the line that
\* dispatches the event
C38_LoneCrEndsLine ==
    [][(/\ codec.readable
        /\ ~codec.decoder.is_closed
        /\ codec'.called \in {"decode", "decode_eof"}
        /\ AtLineStart(codec)
        /\ codec.decoder.data_buf # <<>>
        /\ Len(codec.src) >= 2
        /\ codec.src[1] = CR
        /\ codec.src[2] # LF)
          => /\ codec'.fields # <<>>
             /\ codec'.fields[1] = EmptyLine]_vars

\* C39: reset() puts the decoder back into its initial state, the state of a
\* decoder newly made with the same max_buf_len: event_id, event_type,
\* data_buf and the closed flag hold their initial values, so what is decoded
\* after reset() is what a new decoder decodes, and an event dispatched
\* before a new id field has no id
C39_ResetRestoresInitial ==
    codec.called = "reset"
       => codec.decoder = IF codec.variant = "SSEDecoder"
                          THEN SSEDecoder_with_max_size(codec.decoder.max_buf_len)
                          ELSE with_max_size(codec.decoder.max_buf_len)

\* ------------------------------------------------- main and the debouncer
\* tokio::sync::mpsc::channel(1): the capacity of both channels
Capacity == 1

\* main after the channels are made and file_write_debouncer is spawned:
\* output_file and once are the arguments of the program, debounce and flush
\* the numbers of messages in the two channels; main says where the main
\* loop stands, at "select", in "send" (debounce_tx.send(()).await, with the
\* change it holds) or "ended"; file says where the debouncer stands, in
\* "recv" (timeout(duration, rx.recv()).await), in "send"
\* (tx.send(()).await) or "panicked"; polled counts the results try_next
\* has given, initialized that Initialized was among them, written the
\* files written
InitMain ==
    /\ legacy = FALSE
    /\ environments = EmptyMap
    /\ changes = <<>>
    /\ is_initialized = FALSE
    /\ event_source = create_event_source
    /\ requests = <<>>
    /\ log = <<>>
    /\ outputs = <<>>
    /\ queries = 0
    /\ fatal = NoFatal
    /\ observed = NoObserved
    /\ codec = NoCodec
    /\ \E output_file \in BOOLEAN, once \in BOOLEAN :
         tasks = [output_file |-> output_file, once |-> once, debounce |-> 0, flush |-> 0,
                  main |-> "select", change |-> "none", file |-> "recv",
                  needs_flush |-> FALSE, polled |-> 0, initialized |-> FALSE,
                  written |-> 0]

\* select!: flush_rx.recv() is ready; ok is what write_outfile returns
Main_flush ==
    /\ tasks.main = "select"
    /\ tasks.flush > 0
    /\ \E ok \in BOOLEAN :
         tasks' = [tasks EXCEPT !.flush = @ - 1,
                                !.written = IF tasks.output_file /\ ok THEN @ + 1 ELSE @,
                                !.main = IF tasks.output_file /\ ~ok THEN "ended"
                                         ELSE "select"]
    /\ UNCHANGED <<engine_vars, codec>>

\* select!: client.try_next() is ready with result, Initialized once at
\* most; without an output file the change is matched at once, the hook has
\* no part in the channels
Main_try_next ==
    /\ tasks.main = "select"
    /\ tasks.polled < MaxPolls
    /\ \E result \in {"Err", "None", "Change"}
                      \cup (IF tasks.initialized THEN {} ELSE {"Initialized"}) :
         tasks' = [tasks EXCEPT
                     !.polled = @ + 1,
                     !.initialized = @ \/ result = "Initialized",
                     !.change = IF result \in {"Initialized", "Change"} /\ tasks.output_file
                                THEN result ELSE "none",
                     !.main = CASE result = "Err" -> "ended"
                                [] result = "None" -> "select"
                                [] tasks.output_file -> "send"
                                [] result = "Initialized" /\ tasks.once -> "ended"
                                [] OTHER -> "select"]
    /\ UNCHANGED <<engine_vars, codec>>

\* debounce_tx.send(()).await completes, then the match on the change
Main_send ==
    /\ tasks.main = "send"
    /\ tasks.debounce < Capacity
    /\ tasks' = [tasks EXCEPT !.debounce = @ + 1,
                              !.change = "none",
                              !.main = IF tasks.change = "Initialized" /\ tasks.once
                                       THEN "ended" ELSE "select"]
    /\ UNCHANGED <<engine_vars, codec>>

\* file_write_debouncer: rx.recv() gives a message, Ok(Some(_))
Debouncer_recv ==
    /\ tasks.file = "recv"
    /\ tasks.debounce > 0
    /\ tasks' = [tasks EXCEPT !.debounce = @ - 1, !.needs_flush = TRUE]
    /\ UNCHANGED <<engine_vars, codec>>

\* file_write_debouncer: the time is over with no message, Err(_), or main
\* has ended and dropped the sender, Ok(None); both arms are the same
Debouncer_timeout ==
    /\ tasks.file = "recv"
    /\ tasks.debounce = 0
    /\ tasks' = [tasks EXCEPT !.file = IF tasks.needs_flush THEN "send" ELSE "recv"]
    /\ UNCHANGED <<engine_vars, codec>>

\* file_write_debouncer: tx.send(()).await.unwrap() completes; with the
\* receiver dropped by main the send fails and unwrap panics
Debouncer_send ==
    /\ tasks.file = "send"
    /\ tasks.main = "ended" \/ tasks.flush < Capacity
    /\ tasks' = IF tasks.main = "ended" THEN [tasks EXCEPT !.file = "panicked"]
                ELSE [tasks EXCEPT !.flush = @ + 1, !.needs_flush = FALSE, !.file = "recv"]
    /\ UNCHANGED <<engine_vars, codec>>

NextMain ==
    \/ Main_flush
    \/ Main_try_next
    \/ Main_send
    \/ Debouncer_recv
    \/ Debouncer_timeout
    \/ Debouncer_send

SpecMain == InitMain /\ [][NextMain]_vars

\* C40: main's loop and file_write_debouncer never deadlock on their two
\* channels: in no state does the main loop wait to send a change
\* notification on the full debounce channel while the debouncer waits to
\* send a flush request on the full flush channel
C40_NoDeadlock ==
    ~(/\ tasks.main = "send"
      /\ tasks.debounce = Capacity
      /\ tasks.file = "send"
      /\ tasks.flush = Capacity)

====
